---- MODULE Spec2Model ----
(***************************************************************************)
(* Mudra-Academy: hybrid mudra detection (js/mudra-detection.js).          *)
(*                                                                         *)
(* The file js/mudra-detection.js holds two generations of the same code:  *)
(*   variant "A" (lines 1-758):    weighted-voting scorer, MudraFSM with   *)
(*                                 ENTER/EXIT/MAX_MISMATCH = 1/5/3;        *)
(*   variant "B" (lines 760-1392): priority scorer with steadiness gate,   *)
(*                                 MudraFSM with 2/2/1.                    *)
(* The variable `variant` selects which of the two is running.             *)
(*                                                                         *)
(* Encoding.  Confidences and scores are integers in hundredths            *)
(* (0.9 -> 90, 1.2 -> 120).  The JavaScript values null and undefined are  *)
(* the strings NULL and UNDEFINED, which are no pose name.                 *)
(***************************************************************************)
EXTENDS Integers, Sequences, FiniteSets, TLC

VARIABLES
    variant,    \* "A" or "B": which MudraFSM / detectMudraHybrid is loaded
    fsm,        \* the MudraFSM instance: state, currentMudra, method, confidence,
                \* enterCount, exitCount, mismatchCount
    call,       \* the last call made on the FSM and its arguments
    ret,        \* what that call returned
    frame,      \* what the last detectMudraHybrid invocation computed from its landmarks
    det,        \* what detectMudraHybrid returned on that frame
    candidates, \* the candidates object detectMudraHybrid built on that frame
    invoked,    \* the registry positions whose evaluator it invoked
    pending,    \* the detectMudraHybrid invocations suspended at their await
    featureTensor, \* the frame whose features the shared _featureTensor holds
    frameNo,    \* the number of frames accepted so far
    applied,    \* the number of the frame MudraFSM.update was last applied for
    rawName,    \* the string normalizeMudraName was last called with
    normName,   \* what that call returned
    motion,     \* how the frame last scored relates to prevLandmarks
    landmarks,  \* the 21 hand landmarks the rule evaluators were last given
    verdict,    \* what each evaluator did on that hand, at each scale of it
    currentIndex,  \* ghost mode: the position in `mudras` of the target pose
    matchCounter,  \* ghost mode: the matches counted towards the next advance
    inFlight,      \* ghost mode: the /detect requests sent and not yet answered,
                   \* each with the answer the server will give
    successTimers, \* ghost mode: the pending 500 ms timeouts of triggerSuccess
    ghostOp,       \* ghost mode: the handler that ran last
    streak,        \* history: consecutive results matching the target since it
                   \* became the target
    earned,        \* history: streak has reached MATCH_THRESHOLD for this target
    pythonProcess, \* Electron main: the Python child process, or null
    isPythonReady, \* Electron main: the child has printed READY
    detectQueue,   \* Electron main: the 'mudra:detect' requests awaiting an answer
    stdinPipe,     \* the image lines written to the child and not yet read by it
    stdoutPipe,    \* the lines printed by the child and not yet handled
    resolutions,   \* for each request, the values its promise was resolved with
    issued,        \* the number of 'mudra:detect' requests made so far
    children,      \* the Python children spawned so far, in spawn order: how far
                   \* each has got, and the requests queued while it was
                   \* pythonProcess
    entryRun,   \* history: frames (true, X, 0.9, "ML") fed since HAND_DETECTED
    entryPose,  \* history: the X of entryRun
    diffRun,    \* history: consecutive differing frames since CONFIRMED_MUDRA
    exitPose,   \* history: the pose that was committed when diffRun started
    tentative   \* history: the agreeing frames fed since the tentative pose was
                \* entered, and the differing frames fed since the last of them

histVars == <<entryRun, entryPose, diffRun, exitPose, tentative>>
scorerVars == <<frame, det, candidates, invoked>>
asyncVars  == <<pending, featureTensor, frameNo, applied>>
normVars   == <<rawName, normName>>
\* the state of the parts of the program other than MudraFSM and detectMudraHybrid
geomVars   == <<landmarks, verdict>>
steadyVars == <<motion>>
ghostVars  == <<currentIndex, matchCounter, inFlight, successTimers, ghostOp,
                 streak, earned>>
ipcVars    == <<pythonProcess, isPythonReady, detectQueue, stdinPipe, stdoutPipe,
                 resolutions, issued, children>>
auxVars    == <<normVars, geomVars, steadyVars, ghostVars, ipcVars>>
vars     == <<variant, fsm, call, ret, scorerVars, asyncVars, histVars, auxVars>>

----------------------------------------------------------------------------
(* JavaScript values *)

NULL      == "<null>"
UNDEFINED == "<undefined>"

\* !x for the names of the model (null, undefined and "" are falsy)
Falsy(x) == x \in {NULL, UNDEFINED, ""}

----------------------------------------------------------------------------
(* Bounds of the model *)

\* confidences fed to the FSM: 1.0, 0.9, ... in ConfSteps steps of 0.1
ConfSteps == 1

\* history counters stop counting here
MaxRun == 6

Confs == {100 - 10 * k : k \in 0..ConfSteps}

\* candidate names fed directly to MudraFSM.update
PoseNames  == {"Pataka", "Chakra"}
InputNames == PoseNames \cup {NULL, UNDEFINED}
InputMethods == {"RULE", "ML", "HYBRID"}

Variants == {"A", "B"}

----------------------------------------------------------------------------
(* MudraFSM: constructor *)

ENTER_THRESHOLD(v) == IF v = "A" THEN 1 ELSE 2
EXIT_THRESHOLD(v)  == IF v = "A" THEN 5 ELSE 2
MAX_MISMATCH(v)    == IF v = "A" THEN 3 ELSE 1

\* frames required to confirm a tentative pose of a confusable pair (variant A)
CONFUSED_FRAMES == 8

\* the fields assigned by the constructor of variant v, thresholds included
NewFSM(v) ==
    [state |-> "NO_HAND", currentMudra |-> NULL, method |-> NULL, confidence |-> 0,
     enterCount |-> 0, exitCount |-> 0, mismatchCount |-> 0,
     ENTER_THRESHOLD |-> ENTER_THRESHOLD(v), EXIT_THRESHOLD |-> EXIT_THRESHOLD(v),
     MAX_MISMATCH |-> MAX_MISMATCH(v)]

Ret(name, conf, meth) ==
    [displayName |-> name, displayConf |-> conf, displayMethod |-> meth]

NoHandRet     == Ret("No hand detected", 0, "")
ShowRet       == Ret("Show mudra...", 0, "")
DetectingRet  == Ret("Detecting...", 0, "")
StabilizeRet  == Ret("Stabilizing...", 0, "")

Sentinels == {"No hand detected", "Show mudra...", "Detecting...", "Stabilizing..."}

\* the { displayName, displayConf, displayMethod } built from the FSM's fields
ShowCurrent(f) == Ret(f.currentMudra, f.confidence, f.method)

\* mutation: reset falls back to NO_HAND
reset_toNoHand(f) ==
    [f EXCEPT !.state = "NO_HAND", !.currentMudra = NULL, !.method = NULL,
              !.confidence = 0, !.enterCount = 0, !.exitCount = 0,
              !.mismatchCount = 0]

\* mutation: reset leaves the committed pose in place
reset_keepsPose(f) ==
    [f EXCEPT !.state = "HAND_DETECTED", !.method = NULL,
              !.confidence = 0, !.enterCount = 0, !.exitCount = 0,
              !.mismatchCount = 0]

(* MudraFSM.reset *)
reset(f) ==
    [f EXCEPT !.state = "HAND_DETECTED", !.currentMudra = NULL, !.method = NULL,
              !.confidence = 0, !.enterCount = 0, !.exitCount = 0,
              !.mismatchCount = 0]

(* MudraFSM._isConfusingPair (variant A only) *)
ConfusingPairs == {{"Chakra", "Shivalinga"}, {"Anjali", "Namaskaram"}}

isConfusingPair(a, b) ==
    IF Falsy(a) \/ Falsy(b) THEN FALSE
    ELSE \E p \in ConfusingPairs : a \in p /\ b \in p

----------------------------------------------------------------------------
(* MudraFSM.update, one operator per branch.  Each returns the FSM after    *)
(* the call and the returned object: [fsm |-> ..., ret |-> ...].            *)

\* mutation: the no-hand branch forgets to clear currentMudra
updateNoHand_keepsPose(f) ==
    [fsm |-> [f EXCEPT !.state = "NO_HAND"], ret |-> NoHandRet]

\* if (!handPresent) { ... }
updateNoHand(f) ==
    [fsm |-> [f EXCEPT !.state = "NO_HAND", !.currentMudra = NULL],
     ret |-> NoHandRet]

\* mutation: the debounce branch starts enterCount at 0, so that the first frame
\* is not counted
updateHandDetected_uncounted(f, candidateName, candidateConf, candidateMethod) ==
    IF candidateName = NULL THEN
        [fsm |-> f, ret |-> ShowRet]
    ELSE IF candidateMethod = "RULE" THEN
        LET g == [f EXCEPT !.state = "CONFIRMED_MUDRA", !.currentMudra = candidateName,
                           !.method = "RULE", !.confidence = 100]
        IN  [fsm |-> g, ret |-> ShowCurrent(g)]
    ELSE
        [fsm |-> [f EXCEPT !.state = "ENTERING_MUDRA", !.currentMudra = candidateName,
                           !.method = candidateMethod, !.confidence = candidateConf,
                           !.enterCount = 0],
         ret |-> DetectingRet]

\* mutation: the RULE shortcut stores the candidate's confidence instead of 1.0
updateHandDetected_candConf(f, candidateName, candidateConf, candidateMethod) ==
    IF candidateName = NULL THEN
        [fsm |-> f, ret |-> ShowRet]
    ELSE IF candidateMethod = "RULE" THEN
        LET g == [f EXCEPT !.state = "CONFIRMED_MUDRA", !.currentMudra = candidateName,
                           !.method = "RULE", !.confidence = candidateConf]
        IN  [fsm |-> g, ret |-> ShowCurrent(g)]
    ELSE
        [fsm |-> [f EXCEPT !.state = "ENTERING_MUDRA", !.currentMudra = candidateName,
                           !.method = candidateMethod, !.confidence = candidateConf,
                           !.enterCount = 1],
         ret |-> DetectingRet]

\* mutation: every candidate takes the shortcut, whatever its method
updateHandDetected_eager(f, candidateName, candidateConf, candidateMethod) ==
    IF candidateName = NULL THEN
        [fsm |-> f, ret |-> ShowRet]
    ELSE
        LET g == [f EXCEPT !.state = "CONFIRMED_MUDRA", !.currentMudra = candidateName,
                           !.method = candidateMethod, !.confidence = candidateConf]
        IN  [fsm |-> g, ret |-> ShowCurrent(g)]

\* if (this.state === "HAND_DETECTED") { ... }
updateHandDetected(f, candidateName, candidateConf, candidateMethod) ==
    IF candidateName = NULL THEN
        [fsm |-> f, ret |-> ShowRet]
    ELSE IF candidateMethod = "RULE" THEN
        LET g == [f EXCEPT !.state = "CONFIRMED_MUDRA", !.currentMudra = candidateName,
                           !.method = "RULE", !.confidence = 100]
        IN  [fsm |-> g, ret |-> ShowCurrent(g)]
    ELSE
        [fsm |-> [f EXCEPT !.state = "ENTERING_MUDRA", !.currentMudra = candidateName,
                           !.method = candidateMethod, !.confidence = candidateConf,
                           !.enterCount = 1],
         ret |-> DetectingRet]

\* mutation: the confusable-pair test is dropped, ENTER_THRESHOLD always applies
requiredFrames_plain(v, f, candidateName) == f.ENTER_THRESHOLD

\* requiredFrames of the ENTERING branch
requiredFrames(v, f, candidateName) ==
    IF v = "A" /\ isConfusingPair(f.currentMudra, candidateName)
    THEN CONFUSED_FRAMES
    ELSE f.ENTER_THRESHOLD

\* mutation: the tentative pose is discarded when mismatchCount reaches
\* MAX_MISMATCH (>= for >)
updateEntering_strict(v, f, candidateName, candidateConf) ==
    IF candidateName = f.currentMudra THEN
        LET g == [f EXCEPT !.enterCount = @ + 1, !.mismatchCount = 0,
                           !.confidence = candidateConf]
        IN  IF g.enterCount >= requiredFrames(v, g, candidateName)
            THEN LET h == [g EXCEPT !.state = "CONFIRMED_MUDRA"]
                 IN  [fsm |-> h, ret |-> ShowCurrent(h)]
            ELSE [fsm |-> g, ret |-> DetectingRet]
    ELSE
        LET g == [f EXCEPT !.mismatchCount = @ + 1]
        IN  IF g.mismatchCount >= f.MAX_MISMATCH
            THEN [fsm |-> reset(g), ret |-> StabilizeRet]
            ELSE [fsm |-> g, ret |-> DetectingRet]

\* mutation: a differing frame is ignored while a pose is tentative
updateEntering_ignores(v, f, candidateName, candidateConf) ==
    IF candidateName = f.currentMudra THEN
        LET g == [f EXCEPT !.enterCount = @ + 1, !.mismatchCount = 0,
                           !.confidence = candidateConf]
        IN  IF g.enterCount >= requiredFrames(v, g, candidateName)
            THEN LET h == [g EXCEPT !.state = "CONFIRMED_MUDRA"]
                 IN  [fsm |-> h, ret |-> ShowCurrent(h)]
            ELSE [fsm |-> g, ret |-> DetectingRet]
    ELSE
        [fsm |-> f, ret |-> DetectingRet]

\* if (this.state === "ENTERING_MUDRA") { ... }
updateEntering(v, f, candidateName, candidateConf) ==
    IF candidateName = f.currentMudra THEN
        LET g == [f EXCEPT !.enterCount = @ + 1, !.mismatchCount = 0,
                           !.confidence = candidateConf]
        IN  IF g.enterCount >= requiredFrames(v, g, candidateName)
            THEN LET h == [g EXCEPT !.state = "CONFIRMED_MUDRA"]
                 IN  [fsm |-> h, ret |-> ShowCurrent(h)]
            ELSE [fsm |-> g, ret |-> DetectingRet]
    ELSE
        LET g == [f EXCEPT !.mismatchCount = @ + 1]
        IN  IF g.mismatchCount > f.MAX_MISMATCH
            THEN [fsm |-> reset(g), ret |-> StabilizeRet]
            ELSE [fsm |-> g, ret |-> DetectingRet]

\* mutation: the first differing frame is not counted (exitCount = 0 for 1)
updateConfirmed_uncounted(f, candidateName, candidateConf) ==
    IF candidateName = f.currentMudra THEN
        LET g == [f EXCEPT !.exitCount = 0,
                           !.confidence = IF f.method # "RULE" THEN candidateConf ELSE @]
        IN  [fsm |-> g, ret |-> ShowCurrent(g)]
    ELSE
        LET g == [f EXCEPT !.state = "EXITING_MUDRA", !.exitCount = 0]
        IN  [fsm |-> g, ret |-> ShowCurrent(g)]

\* mutation: a differing frame replaces the committed pose at once
updateConfirmed_switch(f, candidateName, candidateConf) ==
    IF candidateName = f.currentMudra THEN
        LET g == [f EXCEPT !.exitCount = 0,
                           !.confidence = IF f.method # "RULE" THEN candidateConf ELSE @]
        IN  [fsm |-> g, ret |-> ShowCurrent(g)]
    ELSE
        LET g == [f EXCEPT !.currentMudra = candidateName, !.exitCount = 0]
        IN  [fsm |-> g, ret |-> ShowCurrent(g)]

\* if (this.state === "CONFIRMED_MUDRA") { ... }
updateConfirmed(f, candidateName, candidateConf) ==
    IF candidateName = f.currentMudra THEN
        LET g == [f EXCEPT !.exitCount = 0,
                           !.confidence = IF f.method # "RULE" THEN candidateConf ELSE @]
        IN  [fsm |-> g, ret |-> ShowCurrent(g)]
    ELSE
        LET g == [f EXCEPT !.state = "EXITING_MUDRA", !.exitCount = 1]
        IN  [fsm |-> g, ret |-> ShowCurrent(g)]

\* mutation: the returning frame does not clear exitCount
updateExiting_keepsCount(v, f, candidateName) ==
    IF candidateName = f.currentMudra THEN
        LET g == [f EXCEPT !.state = "CONFIRMED_MUDRA"]
        IN  [fsm |-> g, ret |-> ShowCurrent(g)]
    ELSE
        LET g == [f EXCEPT !.exitCount = @ + 1]
        IN  IF g.exitCount >= f.EXIT_THRESHOLD
            THEN [fsm |-> reset(g), ret |-> ShowRet]
            ELSE [fsm |-> g, ret |-> ShowCurrent(g)]

\* if (this.state === "EXITING_MUDRA") { ... }
updateExiting(v, f, candidateName) ==
    IF candidateName = f.currentMudra THEN
        LET g == [f EXCEPT !.state = "CONFIRMED_MUDRA", !.exitCount = 0]
        IN  [fsm |-> g, ret |-> ShowCurrent(g)]
    ELSE
        LET g == [f EXCEPT !.exitCount = @ + 1]
        IN  IF g.exitCount >= f.EXIT_THRESHOLD
            THEN [fsm |-> reset(g), ret |-> ShowRet]
            ELSE [fsm |-> g, ret |-> ShowCurrent(g)]

\* mutation: NO_HAND is not left when the hand appears
wakeUp_stuck(f) == f

\* if (this.state === "NO_HAND") this.state = "HAND_DETECTED";
wakeUp(f) ==
    IF f.state = "NO_HAND" THEN [f EXCEPT !.state = "HAND_DETECTED"] ELSE f

\* mutation: the RULE shortcut is taken in every state
update_ruleAnywhere(v, f, handPresent, candidateName, candidateConf, candidateMethod) ==
    IF ~handPresent THEN updateNoHand(f)
    ELSE LET g == wakeUp(f)
         IN  IF candidateName # NULL /\ candidateMethod = "RULE"
             THEN updateHandDetected(g, candidateName, candidateConf, candidateMethod)
             ELSE CASE g.state = "HAND_DETECTED" ->
                         updateHandDetected(g, candidateName, candidateConf,
                                            candidateMethod)
                    [] g.state = "ENTERING_MUDRA" ->
                         updateEntering(v, g, candidateName, candidateConf)
                    [] g.state = "CONFIRMED_MUDRA" ->
                         updateConfirmed(g, candidateName, candidateConf)
                    [] g.state = "EXITING_MUDRA" ->
                         updateExiting(v, g, candidateName)
                    [] OTHER -> [fsm |-> g, ret |-> ShowRet]

(* MudraFSM.update *)
update(v, f, handPresent, candidateName, candidateConf, candidateMethod) ==
    IF ~handPresent THEN updateNoHand(f)
    ELSE LET g == wakeUp(f)
         IN  CASE g.state = "HAND_DETECTED" ->
                    updateHandDetected(g, candidateName, candidateConf, candidateMethod)
               [] g.state = "ENTERING_MUDRA" ->
                    updateEntering(v, g, candidateName, candidateConf)
               [] g.state = "CONFIRMED_MUDRA" ->
                    updateConfirmed(g, candidateName, candidateConf)
               [] g.state = "EXITING_MUDRA" ->
                    updateExiting(v, g, candidateName)
               [] OTHER -> [fsm |-> g, ret |-> ShowRet]

----------------------------------------------------------------------------
(* window.MudraConstants.normalizeMudraName (js/mudra-constants.js).        *)
(* Strings are atomic values; CharsOf gives the characters of each, and the  *)
(* string operations of the code work on those characters.                  *)

RULE_NAMES == <<"Musthi Mudra", "Pataka Mudra">>   \* in registry order
ML_CLASSES == {"Pathaka", "Chakra"}

\* further class names of the classifier: a spelling the map knows and a
\* canonical name, which is no key of the map
SCORER_CLASSES == ML_CLASSES \cup {"Musthi", "Pataka"}

RawNames   == {RULE_NAMES[i] : i \in 1..Len(RULE_NAMES)} \cup SCORER_CLASSES

\* CANONICAL_MUDRAS
CANONICAL_MUDRAS ==
    {
        "Pataka", "Tripataka", "Ardhapataka", "Kartarimukha", "Mayura",
        "Ardhachandra", "Arala", "Shukatunda", "Mushti", "Shikhara",
        "Kapittha", "Katakamukha", "Suchi", "Chandrakala", "Padmakosha",
        "Sarpashirsha", "Mrigashirsha", "Simhamukha", "Kangula", "Alapadma",
        "Chatura", "Bhramara", "Hamsasya", "Hamsapaksha", "Sandamsha",
        "Mukula", "Tamrachuda", "Trishula"
    }

\* MUDRA_NORMALIZATION_MAP, every entry
MUDRA_NORMALIZATION_MAP ==
    ("pathaka" :> "Pataka") @@
    ("pataka mudra" :> "Pataka") @@
    ("tripathaka" :> "Tripataka") @@
    ("tripataka mudra" :> "Tripataka") @@
    ("ardhapathaka" :> "Ardhapataka") @@
    ("ardhapataka mudra" :> "Ardhapataka") @@
    ("katrimukha" :> "Kartarimukha") @@
    ("kartarimukham" :> "Kartarimukha") @@
    ("kartari mukham mudra" :> "Kartarimukha") @@
    ("mayura mudra" :> "Mayura") @@
    ("ardhachandran" :> "Ardhachandra") @@
    ("ardhachandra mudra" :> "Ardhachandra") @@
    ("aralam" :> "Arala") @@
    ("arala mudra" :> "Arala") @@
    ("sukatunda" :> "Shukatunda") @@
    ("shukatundam" :> "Shukatunda") @@
    ("shuka tundam mudra" :> "Shukatunda") @@
    ("musthi" :> "Mushti") @@
    ("musti" :> "Mushti") @@
    ("musthi mudra" :> "Mushti") @@
    ("shikharam" :> "Shikhara") @@
    ("sikharam" :> "Shikhara") @@
    ("shikharam mudra" :> "Shikhara") @@
    ("kapith" :> "Kapittha") @@
    ("kapittha mudra" :> "Kapittha") @@
    ("katakamukha mudra" :> "Katakamukha") @@
    ("suchi mudra" :> "Suchi") @@
    ("chandrakala mudra" :> "Chandrakala") @@
    ("padmakosa" :> "Padmakosha") @@
    ("padmakosha mudra" :> "Padmakosha") @@
    ("sarpasirsha" :> "Sarpashirsha") @@
    ("sarpashirsha mudra" :> "Sarpashirsha") @@
    ("mrigasirsha" :> "Mrigashirsha") @@
    ("mrugashirsha" :> "Mrigashirsha") @@
    ("mrigasheersha" :> "Mrigashirsha") @@
    ("mrigasheersha mudra" :> "Mrigashirsha") @@
    ("simhamukham" :> "Simhamukha") @@
    ("simhamukha mudra" :> "Simhamukha") @@
    ("kangulam" :> "Kangula") @@
    ("kangula mudra" :> "Kangula") @@
    ("alapadmam" :> "Alapadma") @@
    ("alapadma mudra" :> "Alapadma") @@
    ("chaturam" :> "Chatura") @@
    ("chautra" :> "Chatura") @@
    ("chatura mudra" :> "Chatura") @@
    ("bramaram" :> "Bhramara") @@
    ("bharma" :> "Bhramara") @@
    ("bhramara mudra" :> "Bhramara") @@
    ("hamsasyam" :> "Hamsasya") @@
    ("hamsasya mudra" :> "Hamsasya") @@
    ("hamsapaksha" :> "Hamsapaksha") @@
    ("hamsapaksa" :> "Hamsapaksha") @@
    ("hamsapaksha mudra" :> "Hamsapaksha") @@
    ("sandamsha mudra" :> "Sandamsha") @@
    ("mukulam" :> "Mukula") @@
    ("mukula mudra" :> "Mukula") @@
    ("tamarachudam" :> "Tamrachuda") @@
    ("tamracuda" :> "Tamrachuda") @@
    ("tamrachuda mudra" :> "Tamrachuda") @@
    ("trishulam" :> "Trishula") @@
    ("trisula" :> "Trishula") @@
    ("trishula mudra" :> "Trishula") @@
    ("shanka" :> "Shanka") @@
    ("shanka mudra" :> "Shanka") @@
    ("anjali mudra" :> "Anjali")

\* the characters of every string the model passes to or gets from a string
\* operation: strings are atomic values, their operations work on these
CharsOf ==
    ("Musthi Mudra" :> <<"M", "u", "s", "t", "h", "i", " ", "M", "u", "d", "r", "a">>) @@
    ("Pataka Mudra" :> <<"P", "a", "t", "a", "k", "a", " ", "M", "u", "d", "r", "a">>) @@
    ("Pathaka" :> <<"P", "a", "t", "h", "a", "k", "a">>) @@
    ("Chakra" :> <<"C", "h", "a", "k", "r", "a">>) @@
    ("Musthi" :> <<"M", "u", "s", "t", "h", "i">>) @@
    ("Pataka" :> <<"P", "a", "t", "a", "k", "a">>) @@
    ("pataka" :> <<"p", "a", "t", "a", "k", "a">>) @@
    ("PATAKA" :> <<"P", "A", "T", "A", "K", "A">>) @@
    ("Tripataka" :> <<"T", "r", "i", "p", "a", "t", "a", "k", "a">>) @@
    ("tripataka" :> <<"t", "r", "i", "p", "a", "t", "a", "k", "a">>) @@
    ("TRIPATAKA" :> <<"T", "R", "I", "P", "A", "T", "A", "K", "A">>) @@
    ("Tripataka Mudra" :> <<"T", "r", "i", "p", "a", "t", "a", "k", "a", " ", "M", "u", "d", "r", "a">>) @@
    ("Ardhapataka" :> <<"A", "r", "d", "h", "a", "p", "a", "t", "a", "k", "a">>) @@
    ("ardhapataka" :> <<"a", "r", "d", "h", "a", "p", "a", "t", "a", "k", "a">>) @@
    ("ARDHAPATAKA" :> <<"A", "R", "D", "H", "A", "P", "A", "T", "A", "K", "A">>) @@
    ("Ardhapataka Mudra" :> <<"A", "r", "d", "h", "a", "p", "a", "t", "a", "k", "a", " ", "M", "u", "d", "r", "a">>) @@
    ("Kartarimukha" :> <<"K", "a", "r", "t", "a", "r", "i", "m", "u", "k", "h", "a">>) @@
    ("kartarimukha" :> <<"k", "a", "r", "t", "a", "r", "i", "m", "u", "k", "h", "a">>) @@
    ("KARTARIMUKHA" :> <<"K", "A", "R", "T", "A", "R", "I", "M", "U", "K", "H", "A">>) @@
    ("Kartarimukha Mudra" :> <<"K", "a", "r", "t", "a", "r", "i", "m", "u", "k", "h", "a", " ", "M", "u", "d", "r", "a">>) @@
    ("Mayura" :> <<"M", "a", "y", "u", "r", "a">>) @@
    ("mayura" :> <<"m", "a", "y", "u", "r", "a">>) @@
    ("MAYURA" :> <<"M", "A", "Y", "U", "R", "A">>) @@
    ("Mayura Mudra" :> <<"M", "a", "y", "u", "r", "a", " ", "M", "u", "d", "r", "a">>) @@
    ("Ardhachandra" :> <<"A", "r", "d", "h", "a", "c", "h", "a", "n", "d", "r", "a">>) @@
    ("ardhachandra" :> <<"a", "r", "d", "h", "a", "c", "h", "a", "n", "d", "r", "a">>) @@
    ("ARDHACHANDRA" :> <<"A", "R", "D", "H", "A", "C", "H", "A", "N", "D", "R", "A">>) @@
    ("Ardhachandra Mudra" :> <<"A", "r", "d", "h", "a", "c", "h", "a", "n", "d", "r", "a", " ", "M", "u", "d", "r", "a">>) @@
    ("Arala" :> <<"A", "r", "a", "l", "a">>) @@
    ("arala" :> <<"a", "r", "a", "l", "a">>) @@
    ("ARALA" :> <<"A", "R", "A", "L", "A">>) @@
    ("Arala Mudra" :> <<"A", "r", "a", "l", "a", " ", "M", "u", "d", "r", "a">>) @@
    ("Shukatunda" :> <<"S", "h", "u", "k", "a", "t", "u", "n", "d", "a">>) @@
    ("shukatunda" :> <<"s", "h", "u", "k", "a", "t", "u", "n", "d", "a">>) @@
    ("SHUKATUNDA" :> <<"S", "H", "U", "K", "A", "T", "U", "N", "D", "A">>) @@
    ("Shukatunda Mudra" :> <<"S", "h", "u", "k", "a", "t", "u", "n", "d", "a", " ", "M", "u", "d", "r", "a">>) @@
    ("Mushti" :> <<"M", "u", "s", "h", "t", "i">>) @@
    ("mushti" :> <<"m", "u", "s", "h", "t", "i">>) @@
    ("MUSHTI" :> <<"M", "U", "S", "H", "T", "I">>) @@
    ("Mushti Mudra" :> <<"M", "u", "s", "h", "t", "i", " ", "M", "u", "d", "r", "a">>) @@
    ("Shikhara" :> <<"S", "h", "i", "k", "h", "a", "r", "a">>) @@
    ("shikhara" :> <<"s", "h", "i", "k", "h", "a", "r", "a">>) @@
    ("SHIKHARA" :> <<"S", "H", "I", "K", "H", "A", "R", "A">>) @@
    ("Shikhara Mudra" :> <<"S", "h", "i", "k", "h", "a", "r", "a", " ", "M", "u", "d", "r", "a">>) @@
    ("Kapittha" :> <<"K", "a", "p", "i", "t", "t", "h", "a">>) @@
    ("kapittha" :> <<"k", "a", "p", "i", "t", "t", "h", "a">>) @@
    ("KAPITTHA" :> <<"K", "A", "P", "I", "T", "T", "H", "A">>) @@
    ("Kapittha Mudra" :> <<"K", "a", "p", "i", "t", "t", "h", "a", " ", "M", "u", "d", "r", "a">>) @@
    ("Katakamukha" :> <<"K", "a", "t", "a", "k", "a", "m", "u", "k", "h", "a">>) @@
    ("katakamukha" :> <<"k", "a", "t", "a", "k", "a", "m", "u", "k", "h", "a">>) @@
    ("KATAKAMUKHA" :> <<"K", "A", "T", "A", "K", "A", "M", "U", "K", "H", "A">>) @@
    ("Katakamukha Mudra" :> <<"K", "a", "t", "a", "k", "a", "m", "u", "k", "h", "a", " ", "M", "u", "d", "r", "a">>) @@
    ("Suchi" :> <<"S", "u", "c", "h", "i">>) @@
    ("suchi" :> <<"s", "u", "c", "h", "i">>) @@
    ("SUCHI" :> <<"S", "U", "C", "H", "I">>) @@
    ("Suchi Mudra" :> <<"S", "u", "c", "h", "i", " ", "M", "u", "d", "r", "a">>) @@
    ("Chandrakala" :> <<"C", "h", "a", "n", "d", "r", "a", "k", "a", "l", "a">>) @@
    ("chandrakala" :> <<"c", "h", "a", "n", "d", "r", "a", "k", "a", "l", "a">>) @@
    ("CHANDRAKALA" :> <<"C", "H", "A", "N", "D", "R", "A", "K", "A", "L", "A">>) @@
    ("Chandrakala Mudra" :> <<"C", "h", "a", "n", "d", "r", "a", "k", "a", "l", "a", " ", "M", "u", "d", "r", "a">>) @@
    ("Padmakosha" :> <<"P", "a", "d", "m", "a", "k", "o", "s", "h", "a">>) @@
    ("padmakosha" :> <<"p", "a", "d", "m", "a", "k", "o", "s", "h", "a">>) @@
    ("PADMAKOSHA" :> <<"P", "A", "D", "M", "A", "K", "O", "S", "H", "A">>) @@
    ("Padmakosha Mudra" :> <<"P", "a", "d", "m", "a", "k", "o", "s", "h", "a", " ", "M", "u", "d", "r", "a">>) @@
    ("Sarpashirsha" :> <<"S", "a", "r", "p", "a", "s", "h", "i", "r", "s", "h", "a">>) @@
    ("sarpashirsha" :> <<"s", "a", "r", "p", "a", "s", "h", "i", "r", "s", "h", "a">>) @@
    ("SARPASHIRSHA" :> <<"S", "A", "R", "P", "A", "S", "H", "I", "R", "S", "H", "A">>) @@
    ("Sarpashirsha Mudra" :> <<"S", "a", "r", "p", "a", "s", "h", "i", "r", "s", "h", "a", " ", "M", "u", "d", "r", "a">>) @@
    ("Mrigashirsha" :> <<"M", "r", "i", "g", "a", "s", "h", "i", "r", "s", "h", "a">>) @@
    ("mrigashirsha" :> <<"m", "r", "i", "g", "a", "s", "h", "i", "r", "s", "h", "a">>) @@
    ("MRIGASHIRSHA" :> <<"M", "R", "I", "G", "A", "S", "H", "I", "R", "S", "H", "A">>) @@
    ("Mrigashirsha Mudra" :> <<"M", "r", "i", "g", "a", "s", "h", "i", "r", "s", "h", "a", " ", "M", "u", "d", "r", "a">>) @@
    ("Simhamukha" :> <<"S", "i", "m", "h", "a", "m", "u", "k", "h", "a">>) @@
    ("simhamukha" :> <<"s", "i", "m", "h", "a", "m", "u", "k", "h", "a">>) @@
    ("SIMHAMUKHA" :> <<"S", "I", "M", "H", "A", "M", "U", "K", "H", "A">>) @@
    ("Simhamukha Mudra" :> <<"S", "i", "m", "h", "a", "m", "u", "k", "h", "a", " ", "M", "u", "d", "r", "a">>) @@
    ("Kangula" :> <<"K", "a", "n", "g", "u", "l", "a">>) @@
    ("kangula" :> <<"k", "a", "n", "g", "u", "l", "a">>) @@
    ("KANGULA" :> <<"K", "A", "N", "G", "U", "L", "A">>) @@
    ("Kangula Mudra" :> <<"K", "a", "n", "g", "u", "l", "a", " ", "M", "u", "d", "r", "a">>) @@
    ("Alapadma" :> <<"A", "l", "a", "p", "a", "d", "m", "a">>) @@
    ("alapadma" :> <<"a", "l", "a", "p", "a", "d", "m", "a">>) @@
    ("ALAPADMA" :> <<"A", "L", "A", "P", "A", "D", "M", "A">>) @@
    ("Alapadma Mudra" :> <<"A", "l", "a", "p", "a", "d", "m", "a", " ", "M", "u", "d", "r", "a">>) @@
    ("Chatura" :> <<"C", "h", "a", "t", "u", "r", "a">>) @@
    ("chatura" :> <<"c", "h", "a", "t", "u", "r", "a">>) @@
    ("CHATURA" :> <<"C", "H", "A", "T", "U", "R", "A">>) @@
    ("Chatura Mudra" :> <<"C", "h", "a", "t", "u", "r", "a", " ", "M", "u", "d", "r", "a">>) @@
    ("Bhramara" :> <<"B", "h", "r", "a", "m", "a", "r", "a">>) @@
    ("bhramara" :> <<"b", "h", "r", "a", "m", "a", "r", "a">>) @@
    ("BHRAMARA" :> <<"B", "H", "R", "A", "M", "A", "R", "A">>) @@
    ("Bhramara Mudra" :> <<"B", "h", "r", "a", "m", "a", "r", "a", " ", "M", "u", "d", "r", "a">>) @@
    ("Hamsasya" :> <<"H", "a", "m", "s", "a", "s", "y", "a">>) @@
    ("hamsasya" :> <<"h", "a", "m", "s", "a", "s", "y", "a">>) @@
    ("HAMSASYA" :> <<"H", "A", "M", "S", "A", "S", "Y", "A">>) @@
    ("Hamsasya Mudra" :> <<"H", "a", "m", "s", "a", "s", "y", "a", " ", "M", "u", "d", "r", "a">>) @@
    ("Hamsapaksha" :> <<"H", "a", "m", "s", "a", "p", "a", "k", "s", "h", "a">>) @@
    ("hamsapaksha" :> <<"h", "a", "m", "s", "a", "p", "a", "k", "s", "h", "a">>) @@
    ("HAMSAPAKSHA" :> <<"H", "A", "M", "S", "A", "P", "A", "K", "S", "H", "A">>) @@
    ("Hamsapaksha Mudra" :> <<"H", "a", "m", "s", "a", "p", "a", "k", "s", "h", "a", " ", "M", "u", "d", "r", "a">>) @@
    ("Sandamsha" :> <<"S", "a", "n", "d", "a", "m", "s", "h", "a">>) @@
    ("sandamsha" :> <<"s", "a", "n", "d", "a", "m", "s", "h", "a">>) @@
    ("SANDAMSHA" :> <<"S", "A", "N", "D", "A", "M", "S", "H", "A">>) @@
    ("Sandamsha Mudra" :> <<"S", "a", "n", "d", "a", "m", "s", "h", "a", " ", "M", "u", "d", "r", "a">>) @@
    ("Mukula" :> <<"M", "u", "k", "u", "l", "a">>) @@
    ("mukula" :> <<"m", "u", "k", "u", "l", "a">>) @@
    ("MUKULA" :> <<"M", "U", "K", "U", "L", "A">>) @@
    ("Mukula Mudra" :> <<"M", "u", "k", "u", "l", "a", " ", "M", "u", "d", "r", "a">>) @@
    ("Tamrachuda" :> <<"T", "a", "m", "r", "a", "c", "h", "u", "d", "a">>) @@
    ("tamrachuda" :> <<"t", "a", "m", "r", "a", "c", "h", "u", "d", "a">>) @@
    ("TAMRACHUDA" :> <<"T", "A", "M", "R", "A", "C", "H", "U", "D", "A">>) @@
    ("Tamrachuda Mudra" :> <<"T", "a", "m", "r", "a", "c", "h", "u", "d", "a", " ", "M", "u", "d", "r", "a">>) @@
    ("Trishula" :> <<"T", "r", "i", "s", "h", "u", "l", "a">>) @@
    ("trishula" :> <<"t", "r", "i", "s", "h", "u", "l", "a">>) @@
    ("TRISHULA" :> <<"T", "R", "I", "S", "H", "U", "L", "A">>) @@
    ("Trishula Mudra" :> <<"T", "r", "i", "s", "h", "u", "l", "a", " ", "M", "u", "d", "r", "a">>) @@
    ("pathaka" :> <<"p", "a", "t", "h", "a", "k", "a">>) @@
    ("PATHAKA" :> <<"P", "A", "T", "H", "A", "K", "A">>) @@
    ("pataka mudra" :> <<"p", "a", "t", "a", "k", "a", " ", "m", "u", "d", "r", "a">>) @@
    ("PATAKA MUDRA" :> <<"P", "A", "T", "A", "K", "A", " ", "M", "U", "D", "R", "A">>) @@
    ("tripathaka" :> <<"t", "r", "i", "p", "a", "t", "h", "a", "k", "a">>) @@
    ("TRIPATHAKA" :> <<"T", "R", "I", "P", "A", "T", "H", "A", "K", "A">>) @@
    ("Tripathaka" :> <<"T", "r", "i", "p", "a", "t", "h", "a", "k", "a">>) @@
    ("tripataka mudra" :> <<"t", "r", "i", "p", "a", "t", "a", "k", "a", " ", "m", "u", "d", "r", "a">>) @@
    ("TRIPATAKA MUDRA" :> <<"T", "R", "I", "P", "A", "T", "A", "K", "A", " ", "M", "U", "D", "R", "A">>) @@
    ("ardhapathaka" :> <<"a", "r", "d", "h", "a", "p", "a", "t", "h", "a", "k", "a">>) @@
    ("ARDHAPATHAKA" :> <<"A", "R", "D", "H", "A", "P", "A", "T", "H", "A", "K", "A">>) @@
    ("Ardhapathaka" :> <<"A", "r", "d", "h", "a", "p", "a", "t", "h", "a", "k", "a">>) @@
    ("ardhapataka mudra" :> <<"a", "r", "d", "h", "a", "p", "a", "t", "a", "k", "a", " ", "m", "u", "d", "r", "a">>) @@
    ("ARDHAPATAKA MUDRA" :> <<"A", "R", "D", "H", "A", "P", "A", "T", "A", "K", "A", " ", "M", "U", "D", "R", "A">>) @@
    ("katrimukha" :> <<"k", "a", "t", "r", "i", "m", "u", "k", "h", "a">>) @@
    ("KATRIMUKHA" :> <<"K", "A", "T", "R", "I", "M", "U", "K", "H", "A">>) @@
    ("Katrimukha" :> <<"K", "a", "t", "r", "i", "m", "u", "k", "h", "a">>) @@
    ("kartarimukham" :> <<"k", "a", "r", "t", "a", "r", "i", "m", "u", "k", "h", "a", "m">>) @@
    ("KARTARIMUKHAM" :> <<"K", "A", "R", "T", "A", "R", "I", "M", "U", "K", "H", "A", "M">>) @@
    ("Kartarimukham" :> <<"K", "a", "r", "t", "a", "r", "i", "m", "u", "k", "h", "a", "m">>) @@
    ("kartari mukham mudra" :> <<"k", "a", "r", "t", "a", "r", "i", " ", "m", "u", "k", "h", "a", "m", " ", "m", "u", "d", "r", "a">>) @@
    ("KARTARI MUKHAM MUDRA" :> <<"K", "A", "R", "T", "A", "R", "I", " ", "M", "U", "K", "H", "A", "M", " ", "M", "U", "D", "R", "A">>) @@
    ("Kartari Mukham Mudra" :> <<"K", "a", "r", "t", "a", "r", "i", " ", "M", "u", "k", "h", "a", "m", " ", "M", "u", "d", "r", "a">>) @@
    ("mayura mudra" :> <<"m", "a", "y", "u", "r", "a", " ", "m", "u", "d", "r", "a">>) @@
    ("MAYURA MUDRA" :> <<"M", "A", "Y", "U", "R", "A", " ", "M", "U", "D", "R", "A">>) @@
    ("ardhachandran" :> <<"a", "r", "d", "h", "a", "c", "h", "a", "n", "d", "r", "a", "n">>) @@
    ("ARDHACHANDRAN" :> <<"A", "R", "D", "H", "A", "C", "H", "A", "N", "D", "R", "A", "N">>) @@
    ("Ardhachandran" :> <<"A", "r", "d", "h", "a", "c", "h", "a", "n", "d", "r", "a", "n">>) @@
    ("ardhachandra mudra" :> <<"a", "r", "d", "h", "a", "c", "h", "a", "n", "d", "r", "a", " ", "m", "u", "d", "r", "a">>) @@
    ("ARDHACHANDRA MUDRA" :> <<"A", "R", "D", "H", "A", "C", "H", "A", "N", "D", "R", "A", " ", "M", "U", "D", "R", "A">>) @@
    ("aralam" :> <<"a", "r", "a", "l", "a", "m">>) @@
    ("ARALAM" :> <<"A", "R", "A", "L", "A", "M">>) @@
    ("Aralam" :> <<"A", "r", "a", "l", "a", "m">>) @@
    ("arala mudra" :> <<"a", "r", "a", "l", "a", " ", "m", "u", "d", "r", "a">>) @@
    ("ARALA MUDRA" :> <<"A", "R", "A", "L", "A", " ", "M", "U", "D", "R", "A">>) @@
    ("sukatunda" :> <<"s", "u", "k", "a", "t", "u", "n", "d", "a">>) @@
    ("SUKATUNDA" :> <<"S", "U", "K", "A", "T", "U", "N", "D", "A">>) @@
    ("Sukatunda" :> <<"S", "u", "k", "a", "t", "u", "n", "d", "a">>) @@
    ("shukatundam" :> <<"s", "h", "u", "k", "a", "t", "u", "n", "d", "a", "m">>) @@
    ("SHUKATUNDAM" :> <<"S", "H", "U", "K", "A", "T", "U", "N", "D", "A", "M">>) @@
    ("Shukatundam" :> <<"S", "h", "u", "k", "a", "t", "u", "n", "d", "a", "m">>) @@
    ("shuka tundam mudra" :> <<"s", "h", "u", "k", "a", " ", "t", "u", "n", "d", "a", "m", " ", "m", "u", "d", "r", "a">>) @@
    ("SHUKA TUNDAM MUDRA" :> <<"S", "H", "U", "K", "A", " ", "T", "U", "N", "D", "A", "M", " ", "M", "U", "D", "R", "A">>) @@
    ("Shuka Tundam Mudra" :> <<"S", "h", "u", "k", "a", " ", "T", "u", "n", "d", "a", "m", " ", "M", "u", "d", "r", "a">>) @@
    ("musthi" :> <<"m", "u", "s", "t", "h", "i">>) @@
    ("MUSTHI" :> <<"M", "U", "S", "T", "H", "I">>) @@
    ("musti" :> <<"m", "u", "s", "t", "i">>) @@
    ("MUSTI" :> <<"M", "U", "S", "T", "I">>) @@
    ("Musti" :> <<"M", "u", "s", "t", "i">>) @@
    ("musthi mudra" :> <<"m", "u", "s", "t", "h", "i", " ", "m", "u", "d", "r", "a">>) @@
    ("MUSTHI MUDRA" :> <<"M", "U", "S", "T", "H", "I", " ", "M", "U", "D", "R", "A">>) @@
    ("shikharam" :> <<"s", "h", "i", "k", "h", "a", "r", "a", "m">>) @@
    ("SHIKHARAM" :> <<"S", "H", "I", "K", "H", "A", "R", "A", "M">>) @@
    ("Shikharam" :> <<"S", "h", "i", "k", "h", "a", "r", "a", "m">>) @@
    ("sikharam" :> <<"s", "i", "k", "h", "a", "r", "a", "m">>) @@
    ("SIKHARAM" :> <<"S", "I", "K", "H", "A", "R", "A", "M">>) @@
    ("Sikharam" :> <<"S", "i", "k", "h", "a", "r", "a", "m">>) @@
    ("shikharam mudra" :> <<"s", "h", "i", "k", "h", "a", "r", "a", "m", " ", "m", "u", "d", "r", "a">>) @@
    ("SHIKHARAM MUDRA" :> <<"S", "H", "I", "K", "H", "A", "R", "A", "M", " ", "M", "U", "D", "R", "A">>) @@
    ("Shikharam Mudra" :> <<"S", "h", "i", "k", "h", "a", "r", "a", "m", " ", "M", "u", "d", "r", "a">>) @@
    ("kapith" :> <<"k", "a", "p", "i", "t", "h">>) @@
    ("KAPITH" :> <<"K", "A", "P", "I", "T", "H">>) @@
    ("Kapith" :> <<"K", "a", "p", "i", "t", "h">>) @@
    ("kapittha mudra" :> <<"k", "a", "p", "i", "t", "t", "h", "a", " ", "m", "u", "d", "r", "a">>) @@
    ("KAPITTHA MUDRA" :> <<"K", "A", "P", "I", "T", "T", "H", "A", " ", "M", "U", "D", "R", "A">>) @@
    ("katakamukha mudra" :> <<"k", "a", "t", "a", "k", "a", "m", "u", "k", "h", "a", " ", "m", "u", "d", "r", "a">>) @@
    ("KATAKAMUKHA MUDRA" :> <<"K", "A", "T", "A", "K", "A", "M", "U", "K", "H", "A", " ", "M", "U", "D", "R", "A">>) @@
    ("suchi mudra" :> <<"s", "u", "c", "h", "i", " ", "m", "u", "d", "r", "a">>) @@
    ("SUCHI MUDRA" :> <<"S", "U", "C", "H", "I", " ", "M", "U", "D", "R", "A">>) @@
    ("chandrakala mudra" :> <<"c", "h", "a", "n", "d", "r", "a", "k", "a", "l", "a", " ", "m", "u", "d", "r", "a">>) @@
    ("CHANDRAKALA MUDRA" :> <<"C", "H", "A", "N", "D", "R", "A", "K", "A", "L", "A", " ", "M", "U", "D", "R", "A">>) @@
    ("padmakosa" :> <<"p", "a", "d", "m", "a", "k", "o", "s", "a">>) @@
    ("PADMAKOSA" :> <<"P", "A", "D", "M", "A", "K", "O", "S", "A">>) @@
    ("Padmakosa" :> <<"P", "a", "d", "m", "a", "k", "o", "s", "a">>) @@
    ("padmakosha mudra" :> <<"p", "a", "d", "m", "a", "k", "o", "s", "h", "a", " ", "m", "u", "d", "r", "a">>) @@
    ("PADMAKOSHA MUDRA" :> <<"P", "A", "D", "M", "A", "K", "O", "S", "H", "A", " ", "M", "U", "D", "R", "A">>) @@
    ("sarpasirsha" :> <<"s", "a", "r", "p", "a", "s", "i", "r", "s", "h", "a">>) @@
    ("SARPASIRSHA" :> <<"S", "A", "R", "P", "A", "S", "I", "R", "S", "H", "A">>) @@
    ("Sarpasirsha" :> <<"S", "a", "r", "p", "a", "s", "i", "r", "s", "h", "a">>) @@
    ("sarpashirsha mudra" :> <<"s", "a", "r", "p", "a", "s", "h", "i", "r", "s", "h", "a", " ", "m", "u", "d", "r", "a">>) @@
    ("SARPASHIRSHA MUDRA" :> <<"S", "A", "R", "P", "A", "S", "H", "I", "R", "S", "H", "A", " ", "M", "U", "D", "R", "A">>) @@
    ("mrigasirsha" :> <<"m", "r", "i", "g", "a", "s", "i", "r", "s", "h", "a">>) @@
    ("MRIGASIRSHA" :> <<"M", "R", "I", "G", "A", "S", "I", "R", "S", "H", "A">>) @@
    ("Mrigasirsha" :> <<"M", "r", "i", "g", "a", "s", "i", "r", "s", "h", "a">>) @@
    ("mrugashirsha" :> <<"m", "r", "u", "g", "a", "s", "h", "i", "r", "s", "h", "a">>) @@
    ("MRUGASHIRSHA" :> <<"M", "R", "U", "G", "A", "S", "H", "I", "R", "S", "H", "A">>) @@
    ("Mrugashirsha" :> <<"M", "r", "u", "g", "a", "s", "h", "i", "r", "s", "h", "a">>) @@
    ("mrigasheersha" :> <<"m", "r", "i", "g", "a", "s", "h", "e", "e", "r", "s", "h", "a">>) @@
    ("MRIGASHEERSHA" :> <<"M", "R", "I", "G", "A", "S", "H", "E", "E", "R", "S", "H", "A">>) @@
    ("Mrigasheersha" :> <<"M", "r", "i", "g", "a", "s", "h", "e", "e", "r", "s", "h", "a">>) @@
    ("mrigasheersha mudra" :> <<"m", "r", "i", "g", "a", "s", "h", "e", "e", "r", "s", "h", "a", " ", "m", "u", "d", "r", "a">>) @@
    ("MRIGASHEERSHA MUDRA" :> <<"M", "R", "I", "G", "A", "S", "H", "E", "E", "R", "S", "H", "A", " ", "M", "U", "D", "R", "A">>) @@
    ("Mrigasheersha Mudra" :> <<"M", "r", "i", "g", "a", "s", "h", "e", "e", "r", "s", "h", "a", " ", "M", "u", "d", "r", "a">>) @@
    ("simhamukham" :> <<"s", "i", "m", "h", "a", "m", "u", "k", "h", "a", "m">>) @@
    ("SIMHAMUKHAM" :> <<"S", "I", "M", "H", "A", "M", "U", "K", "H", "A", "M">>) @@
    ("Simhamukham" :> <<"S", "i", "m", "h", "a", "m", "u", "k", "h", "a", "m">>) @@
    ("simhamukha mudra" :> <<"s", "i", "m", "h", "a", "m", "u", "k", "h", "a", " ", "m", "u", "d", "r", "a">>) @@
    ("SIMHAMUKHA MUDRA" :> <<"S", "I", "M", "H", "A", "M", "U", "K", "H", "A", " ", "M", "U", "D", "R", "A">>) @@
    ("kangulam" :> <<"k", "a", "n", "g", "u", "l", "a", "m">>) @@
    ("KANGULAM" :> <<"K", "A", "N", "G", "U", "L", "A", "M">>) @@
    ("Kangulam" :> <<"K", "a", "n", "g", "u", "l", "a", "m">>) @@
    ("kangula mudra" :> <<"k", "a", "n", "g", "u", "l", "a", " ", "m", "u", "d", "r", "a">>) @@
    ("KANGULA MUDRA" :> <<"K", "A", "N", "G", "U", "L", "A", " ", "M", "U", "D", "R", "A">>) @@
    ("alapadmam" :> <<"a", "l", "a", "p", "a", "d", "m", "a", "m">>) @@
    ("ALAPADMAM" :> <<"A", "L", "A", "P", "A", "D", "M", "A", "M">>) @@
    ("Alapadmam" :> <<"A", "l", "a", "p", "a", "d", "m", "a", "m">>) @@
    ("alapadma mudra" :> <<"a", "l", "a", "p", "a", "d", "m", "a", " ", "m", "u", "d", "r", "a">>) @@
    ("ALAPADMA MUDRA" :> <<"A", "L", "A", "P", "A", "D", "M", "A", " ", "M", "U", "D", "R", "A">>) @@
    ("chaturam" :> <<"c", "h", "a", "t", "u", "r", "a", "m">>) @@
    ("CHATURAM" :> <<"C", "H", "A", "T", "U", "R", "A", "M">>) @@
    ("Chaturam" :> <<"C", "h", "a", "t", "u", "r", "a", "m">>) @@
    ("chautra" :> <<"c", "h", "a", "u", "t", "r", "a">>) @@
    ("CHAUTRA" :> <<"C", "H", "A", "U", "T", "R", "A">>) @@
    ("Chautra" :> <<"C", "h", "a", "u", "t", "r", "a">>) @@
    ("chatura mudra" :> <<"c", "h", "a", "t", "u", "r", "a", " ", "m", "u", "d", "r", "a">>) @@
    ("CHATURA MUDRA" :> <<"C", "H", "A", "T", "U", "R", "A", " ", "M", "U", "D", "R", "A">>) @@
    ("bramaram" :> <<"b", "r", "a", "m", "a", "r", "a", "m">>) @@
    ("BRAMARAM" :> <<"B", "R", "A", "M", "A", "R", "A", "M">>) @@
    ("Bramaram" :> <<"B", "r", "a", "m", "a", "r", "a", "m">>) @@
    ("bharma" :> <<"b", "h", "a", "r", "m", "a">>) @@
    ("BHARMA" :> <<"B", "H", "A", "R", "M", "A">>) @@
    ("Bharma" :> <<"B", "h", "a", "r", "m", "a">>) @@
    ("bhramara mudra" :> <<"b", "h", "r", "a", "m", "a", "r", "a", " ", "m", "u", "d", "r", "a">>) @@
    ("BHRAMARA MUDRA" :> <<"B", "H", "R", "A", "M", "A", "R", "A", " ", "M", "U", "D", "R", "A">>) @@
    ("hamsasyam" :> <<"h", "a", "m", "s", "a", "s", "y", "a", "m">>) @@
    ("HAMSASYAM" :> <<"H", "A", "M", "S", "A", "S", "Y", "A", "M">>) @@
    ("Hamsasyam" :> <<"H", "a", "m", "s", "a", "s", "y", "a", "m">>) @@
    ("hamsasya mudra" :> <<"h", "a", "m", "s", "a", "s", "y", "a", " ", "m", "u", "d", "r", "a">>) @@
    ("HAMSASYA MUDRA" :> <<"H", "A", "M", "S", "A", "S", "Y", "A", " ", "M", "U", "D", "R", "A">>) @@
    ("hamsapaksa" :> <<"h", "a", "m", "s", "a", "p", "a", "k", "s", "a">>) @@
    ("HAMSAPAKSA" :> <<"H", "A", "M", "S", "A", "P", "A", "K", "S", "A">>) @@
    ("Hamsapaksa" :> <<"H", "a", "m", "s", "a", "p", "a", "k", "s", "a">>) @@
    ("hamsapaksha mudra" :> <<"h", "a", "m", "s", "a", "p", "a", "k", "s", "h", "a", " ", "m", "u", "d", "r", "a">>) @@
    ("HAMSAPAKSHA MUDRA" :> <<"H", "A", "M", "S", "A", "P", "A", "K", "S", "H", "A", " ", "M", "U", "D", "R", "A">>) @@
    ("sandamsha mudra" :> <<"s", "a", "n", "d", "a", "m", "s", "h", "a", " ", "m", "u", "d", "r", "a">>) @@
    ("SANDAMSHA MUDRA" :> <<"S", "A", "N", "D", "A", "M", "S", "H", "A", " ", "M", "U", "D", "R", "A">>) @@
    ("mukulam" :> <<"m", "u", "k", "u", "l", "a", "m">>) @@
    ("MUKULAM" :> <<"M", "U", "K", "U", "L", "A", "M">>) @@
    ("Mukulam" :> <<"M", "u", "k", "u", "l", "a", "m">>) @@
    ("mukula mudra" :> <<"m", "u", "k", "u", "l", "a", " ", "m", "u", "d", "r", "a">>) @@
    ("MUKULA MUDRA" :> <<"M", "U", "K", "U", "L", "A", " ", "M", "U", "D", "R", "A">>) @@
    ("tamarachudam" :> <<"t", "a", "m", "a", "r", "a", "c", "h", "u", "d", "a", "m">>) @@
    ("TAMARACHUDAM" :> <<"T", "A", "M", "A", "R", "A", "C", "H", "U", "D", "A", "M">>) @@
    ("Tamarachudam" :> <<"T", "a", "m", "a", "r", "a", "c", "h", "u", "d", "a", "m">>) @@
    ("tamracuda" :> <<"t", "a", "m", "r", "a", "c", "u", "d", "a">>) @@
    ("TAMRACUDA" :> <<"T", "A", "M", "R", "A", "C", "U", "D", "A">>) @@
    ("Tamracuda" :> <<"T", "a", "m", "r", "a", "c", "u", "d", "a">>) @@
    ("tamrachuda mudra" :> <<"t", "a", "m", "r", "a", "c", "h", "u", "d", "a", " ", "m", "u", "d", "r", "a">>) @@
    ("TAMRACHUDA MUDRA" :> <<"T", "A", "M", "R", "A", "C", "H", "U", "D", "A", " ", "M", "U", "D", "R", "A">>) @@
    ("trishulam" :> <<"t", "r", "i", "s", "h", "u", "l", "a", "m">>) @@
    ("TRISHULAM" :> <<"T", "R", "I", "S", "H", "U", "L", "A", "M">>) @@
    ("Trishulam" :> <<"T", "r", "i", "s", "h", "u", "l", "a", "m">>) @@
    ("trisula" :> <<"t", "r", "i", "s", "u", "l", "a">>) @@
    ("TRISULA" :> <<"T", "R", "I", "S", "U", "L", "A">>) @@
    ("Trisula" :> <<"T", "r", "i", "s", "u", "l", "a">>) @@
    ("trishula mudra" :> <<"t", "r", "i", "s", "h", "u", "l", "a", " ", "m", "u", "d", "r", "a">>) @@
    ("TRISHULA MUDRA" :> <<"T", "R", "I", "S", "H", "U", "L", "A", " ", "M", "U", "D", "R", "A">>) @@
    ("shanka" :> <<"s", "h", "a", "n", "k", "a">>) @@
    ("SHANKA" :> <<"S", "H", "A", "N", "K", "A">>) @@
    ("Shanka" :> <<"S", "h", "a", "n", "k", "a">>) @@
    ("shanka mudra" :> <<"s", "h", "a", "n", "k", "a", " ", "m", "u", "d", "r", "a">>) @@
    ("SHANKA MUDRA" :> <<"S", "H", "A", "N", "K", "A", " ", "M", "U", "D", "R", "A">>) @@
    ("Shanka Mudra" :> <<"S", "h", "a", "n", "k", "a", " ", "M", "u", "d", "r", "a">>) @@
    ("anjali mudra" :> <<"a", "n", "j", "a", "l", "i", " ", "m", "u", "d", "r", "a">>) @@
    ("ANJALI MUDRA" :> <<"A", "N", "J", "A", "L", "I", " ", "M", "U", "D", "R", "A">>) @@
    ("Anjali Mudra" :> <<"A", "n", "j", "a", "l", "i", " ", "M", "u", "d", "r", "a">>) @@
    ("chakra" :> <<"c", "h", "a", "k", "r", "a">>) @@
    ("kartarimukha mudra" :> <<"k", "a", "r", "t", "a", "r", "i", "m", "u", "k", "h", "a", " ", "m", "u", "d", "r", "a">>) @@
    ("shukatunda mudra" :> <<"s", "h", "u", "k", "a", "t", "u", "n", "d", "a", " ", "m", "u", "d", "r", "a">>) @@
    ("mushti mudra" :> <<"m", "u", "s", "h", "t", "i", " ", "m", "u", "d", "r", "a">>) @@
    ("shikhara mudra" :> <<"s", "h", "i", "k", "h", "a", "r", "a", " ", "m", "u", "d", "r", "a">>) @@
    ("mrigashirsha mudra" :> <<"m", "r", "i", "g", "a", "s", "h", "i", "r", "s", "h", "a", " ", "m", "u", "d", "r", "a">>) @@
    ("Pataka mudra" :> <<"P", "a", "t", "a", "k", "a", " ", "m", "u", "d", "r", "a">>) @@
    ("Tripataka mudra" :> <<"T", "r", "i", "p", "a", "t", "a", "k", "a", " ", "m", "u", "d", "r", "a">>) @@
    ("Ardhapataka mudra" :> <<"A", "r", "d", "h", "a", "p", "a", "t", "a", "k", "a", " ", "m", "u", "d", "r", "a">>) @@
    ("Kartari mukham mudra" :> <<"K", "a", "r", "t", "a", "r", "i", " ", "m", "u", "k", "h", "a", "m", " ", "m", "u", "d", "r", "a">>) @@
    ("Mayura mudra" :> <<"M", "a", "y", "u", "r", "a", " ", "m", "u", "d", "r", "a">>) @@
    ("Ardhachandra mudra" :> <<"A", "r", "d", "h", "a", "c", "h", "a", "n", "d", "r", "a", " ", "m", "u", "d", "r", "a">>) @@
    ("Arala mudra" :> <<"A", "r", "a", "l", "a", " ", "m", "u", "d", "r", "a">>) @@
    ("Shuka tundam mudra" :> <<"S", "h", "u", "k", "a", " ", "t", "u", "n", "d", "a", "m", " ", "m", "u", "d", "r", "a">>) @@
    ("Musthi mudra" :> <<"M", "u", "s", "t", "h", "i", " ", "m", "u", "d", "r", "a">>) @@
    ("Shikharam mudra" :> <<"S", "h", "i", "k", "h", "a", "r", "a", "m", " ", "m", "u", "d", "r", "a">>) @@
    ("Kapittha mudra" :> <<"K", "a", "p", "i", "t", "t", "h", "a", " ", "m", "u", "d", "r", "a">>) @@
    ("Katakamukha mudra" :> <<"K", "a", "t", "a", "k", "a", "m", "u", "k", "h", "a", " ", "m", "u", "d", "r", "a">>) @@
    ("Suchi mudra" :> <<"S", "u", "c", "h", "i", " ", "m", "u", "d", "r", "a">>) @@
    ("Chandrakala mudra" :> <<"C", "h", "a", "n", "d", "r", "a", "k", "a", "l", "a", " ", "m", "u", "d", "r", "a">>) @@
    ("Padmakosha mudra" :> <<"P", "a", "d", "m", "a", "k", "o", "s", "h", "a", " ", "m", "u", "d", "r", "a">>) @@
    ("Sarpashirsha mudra" :> <<"S", "a", "r", "p", "a", "s", "h", "i", "r", "s", "h", "a", " ", "m", "u", "d", "r", "a">>) @@
    ("Mrigasheersha mudra" :> <<"M", "r", "i", "g", "a", "s", "h", "e", "e", "r", "s", "h", "a", " ", "m", "u", "d", "r", "a">>) @@
    ("Simhamukha mudra" :> <<"S", "i", "m", "h", "a", "m", "u", "k", "h", "a", " ", "m", "u", "d", "r", "a">>) @@
    ("Kangula mudra" :> <<"K", "a", "n", "g", "u", "l", "a", " ", "m", "u", "d", "r", "a">>) @@
    ("Alapadma mudra" :> <<"A", "l", "a", "p", "a", "d", "m", "a", " ", "m", "u", "d", "r", "a">>) @@
    ("Chatura mudra" :> <<"C", "h", "a", "t", "u", "r", "a", " ", "m", "u", "d", "r", "a">>) @@
    ("Bhramara mudra" :> <<"B", "h", "r", "a", "m", "a", "r", "a", " ", "m", "u", "d", "r", "a">>) @@
    ("Hamsasya mudra" :> <<"H", "a", "m", "s", "a", "s", "y", "a", " ", "m", "u", "d", "r", "a">>) @@
    ("Hamsapaksha mudra" :> <<"H", "a", "m", "s", "a", "p", "a", "k", "s", "h", "a", " ", "m", "u", "d", "r", "a">>) @@
    ("Sandamsha mudra" :> <<"S", "a", "n", "d", "a", "m", "s", "h", "a", " ", "m", "u", "d", "r", "a">>) @@
    ("Mukula mudra" :> <<"M", "u", "k", "u", "l", "a", " ", "m", "u", "d", "r", "a">>) @@
    ("Tamrachuda mudra" :> <<"T", "a", "m", "r", "a", "c", "h", "u", "d", "a", " ", "m", "u", "d", "r", "a">>) @@
    ("Trishula mudra" :> <<"T", "r", "i", "s", "h", "u", "l", "a", " ", "m", "u", "d", "r", "a">>) @@
    ("Shanka mudra" :> <<"S", "h", "a", "n", "k", "a", " ", "m", "u", "d", "r", "a">>) @@
    ("anjali" :> <<"a", "n", "j", "a", "l", "i">>) @@
    ("Anjali" :> <<"A", "n", "j", "a", "l", "i">>) @@
    ("Anjali mudra" :> <<"A", "n", "j", "a", "l", "i", " ", "m", "u", "d", "r", "a">>) @@
    ("Kartarimukha mudra" :> <<"K", "a", "r", "t", "a", "r", "i", "m", "u", "k", "h", "a", " ", "m", "u", "d", "r", "a">>) @@
    ("Shukatunda mudra" :> <<"S", "h", "u", "k", "a", "t", "u", "n", "d", "a", " ", "m", "u", "d", "r", "a">>) @@
    ("Mushti mudra" :> <<"M", "u", "s", "h", "t", "i", " ", "m", "u", "d", "r", "a">>) @@
    ("Shikhara mudra" :> <<"S", "h", "i", "k", "h", "a", "r", "a", " ", "m", "u", "d", "r", "a">>) @@
    ("Mrigashirsha mudra" :> <<"M", "r", "i", "g", "a", "s", "h", "i", "r", "s", "h", "a", " ", "m", "u", "d", "r", "a">>)

\* the string with the given characters
StringOf(chars) == CHOOSE n \in DOMAIN CharsOf : CharsOf[n] = chars

UPPER_LETTERS ==
    <<"A", "B", "C", "D", "E", "F", "G", "H", "I", "J", "K", "L", "M",
      "N", "O", "P", "Q", "R", "S", "T", "U", "V", "W", "X", "Y", "Z">>
LOWER_LETTERS ==
    <<"a", "b", "c", "d", "e", "f", "g", "h", "i", "j", "k", "l", "m",
      "n", "o", "p", "q", "r", "s", "t", "u", "v", "w", "x", "y", "z">>

toLowerChar(c) ==
    IF \E i \in 1..26 : UPPER_LETTERS[i] = c
    THEN LOWER_LETTERS[CHOOSE i \in 1..26 : UPPER_LETTERS[i] = c]
    ELSE c

toUpperChar(c) ==
    IF \E i \in 1..26 : LOWER_LETTERS[i] = c
    THEN UPPER_LETTERS[CHOOSE i \in 1..26 : LOWER_LETTERS[i] = c]
    ELSE c

\* String.prototype.toLowerCase
toLowerCase(s) == [i \in 1..Len(s) |-> toLowerChar(s[i])]

\* String.prototype.trim
RECURSIVE trimStart(_)
trimStart(s) == IF s # <<>> /\ Head(s) = " " THEN trimStart(Tail(s)) ELSE s

RECURSIVE trimEnd(_)
trimEnd(s) ==
    IF s # <<>> /\ s[Len(s)] = " " THEN trimEnd(SubSeq(s, 1, Len(s) - 1)) ELSE s

trim(s) == trimEnd(trimStart(s))

\* String.prototype.indexOf, counted from 1; 0 if pat does not occur
indexOf(s, pat) ==
    LET hits == {i \in 1..(Len(s) - Len(pat) + 1) : SubSeq(s, i, i + Len(pat) - 1) = pat}
    IN  IF hits = {} THEN 0 ELSE CHOOSE i \in hits : \A j \in hits : i <= j

\* String.prototype.replace with a string pattern: the first occurrence only
replaceFirst(s, pat, by) ==
    LET i == indexOf(s, pat)
    IN  IF i = 0 THEN s
        ELSE SubSeq(s, 1, i - 1) \o by \o SubSeq(s, i + Len(pat), Len(s))

IsNotSpace(c) == c # " "

\* replace(/\s+/g, "")
removeWhitespace(s) == SelectSeq(s, IsNotSpace)

\* name.toLowerCase().trim()
LowerTrim(name) == StringOf(trim(toLowerCase(CharsOf[name])))

\* lower.replace(" mudra", "").replace(/\s+/g, "")
Clean(lower) ==
    StringOf(removeWhitespace(
        replaceFirst(CharsOf[lower], <<" ", "m", "u", "d", "r", "a">>, <<>>)))

\* name.charAt(0).toUpperCase() + name.slice(1)
Capitalize(name) ==
    LET s == CharsOf[name]
    IN  IF s = <<>> THEN name ELSE StringOf(<<toUpperChar(Head(s))>> \o Tail(s))

normalizeMudraName(name) ==
    IF Falsy(name) THEN ""
    ELSE LET lower == LowerTrim(name)
             clean == Clean(lower)
         IN  IF lower \in DOMAIN MUDRA_NORMALIZATION_MAP
             THEN MUDRA_NORMALIZATION_MAP[lower]
             ELSE IF clean \in DOMAIN MUDRA_NORMALIZATION_MAP
             THEN MUDRA_NORMALIZATION_MAP[clean]
             ELSE Capitalize(name)

\* normalizeMudraName of every string of the model, evaluated once
Normalized ==
    [name \in DOMAIN CharsOf |-> normalizeMudraName(name)]
        @@ (NULL :> "") @@ (UNDEFINED :> "")

----------------------------------------------------------------------------
(* detectMudraHybrid.  A frame's landmarks enter through what the code      *)
(* computes from them: the outcome of every rule evaluator of the registry  *)
(* ("true", "false" or "throw"), isHandSteady, and the classifier's answer. *)

RULE_WEIGHT      == 120
ML_VOTE_FLOOR    == 30
HYBRID_THRESHOLD == 55
ML_CONF_THRESHOLD == 55

RuleOutcomes == {"true", "false", "throw"}

\* confidences the classifier answers with: at the vote floor, between the floor
\* and the acceptance thresholds, at the thresholds, above them
ML_CONFS == {30, 40, 55, 90}

\* how far the classifier is loaded: nothing, rfSession only (rfClasses is still
\* being fetched), or both
LoadStates == {"none", "session", "ready"}

\* MudraInference.isInitialized: rfSession !== null
isInitialized(load) == load # "none"

\* what a caller that checks isInitialized() gets from detectSingleHandML, which
\* throws if (!rfSession || !rfClasses)
mlStatus(load) ==
    IF ~isInitialized(load) THEN "uninit"
    ELSE IF load # "ready" THEN "throw"
    ELSE "ok"

\* window.MudraInference: not initialised, detectSingleHandML throws, or a result
MLAnswers ==
    {[status |-> mlStatus(load), className |-> NULL, confidence |-> 0] :
        load \in LoadStates}
    \cup [status : {"ok"}, className : ML_CLASSES, confidence : ML_CONFS]

Frames ==
    [rules : [1..Len(RULE_NAMES) -> RuleOutcomes], steady : BOOLEAN, ml : MLAnswers]

NoFrame ==
    [rules |-> [i \in 1..Len(RULE_NAMES) |-> "false"], steady |-> FALSE,
     ml |-> [status |-> "uninit", className |-> NULL, confidence |-> 0]]

Det(name, conf, meth) == [mudraName |-> name, confidence |-> conf, method |-> meth]
NoDet == Det(NULL, 0, NULL)

\* the promise of detectMudraHybrid rejects instead of resolving to a result
Rejected == Det("<rejected>", 0, NULL)

Min(a, b) == IF a < b THEN a ELSE b

\* index of the candidate entry of `name` in the candidates object, 0 if none
CandIndex(cands, name) ==
    IF \E i \in 1..Len(cands) : cands[i].name = name
    THEN CHOOSE i \in 1..Len(cands) : cands[i].name = name
    ELSE 0

\* mutation: votes are accumulated under the name as given
addScore_raw(cands, name, score, source) ==
    IF Falsy(name) THEN cands
    ELSE LET i == CandIndex(cands, name)
         IN  IF i = 0
             THEN Append(cands, [name |-> name, score |-> score, sources |-> {source}])
             ELSE [cands EXCEPT ![i].score = @ + score,
                                ![i].sources = @ \cup {source}]

\* addScore of variant A; `cands` is the candidates object in insertion order
addScore(cands, name, score, source) ==
    IF Falsy(name) THEN cands
    ELSE LET normalizedName == Normalized[name]
             i == CandIndex(cands, normalizedName)
         IN  IF i = 0
             THEN Append(cands, [name |-> normalizedName, score |-> score,
                                 sources |-> {source}])
             ELSE [cands EXCEPT ![i].score = @ + score,
                                ![i].sources = @ \cup {source}]

\* mutation: a rule hit weighs 0.8, less than a confident ML vote
RECURSIVE ruleVotes_light(_, _, _)
ruleVotes_light(cands, rules, i) ==
    IF i > Len(RULE_NAMES) THEN cands
    ELSE CASE rules[i] = "true" ->
                ruleVotes_light(addScore(cands, RULE_NAMES[i], 80, "RULE"),
                                rules, i + 1)
           [] OTHER -> ruleVotes_light(cands, rules, i + 1)

\* mutation: a throwing evaluator ends the loop
RECURSIVE ruleVotes_abort(_, _, _)
ruleVotes_abort(cands, rules, i) ==
    IF i > Len(RULE_NAMES) THEN cands
    ELSE CASE rules[i] = "true" ->
                ruleVotes_abort(addScore(cands, RULE_NAMES[i], RULE_WEIGHT, "RULE"),
                                rules, i + 1)
           [] rules[i] = "false" -> ruleVotes_abort(cands, rules, i + 1)
           [] rules[i] = "throw" -> cands

\* 1. RULE-BASED VOTING: the loop over the registry, evaluators i..end
RECURSIVE ruleVotes(_, _, _)
ruleVotes(cands, rules, i) ==
    IF i > Len(RULE_NAMES) THEN cands
    ELSE CASE rules[i] = "true" ->    \* checkFunc returned true
                ruleVotes(addScore(cands, RULE_NAMES[i], RULE_WEIGHT, "RULE"),
                          rules, i + 1)
           [] rules[i] = "false" ->   \* checkFunc returned false
                ruleVotes(cands, rules, i + 1)
           [] rules[i] = "throw" ->   \* catch (e) { continue; }
                ruleVotes(cands, rules, i + 1)

\* 2. ML VOTING
mlVote(cands, ml) ==
    IF ml.status = "ok" /\ ~Falsy(ml.className) /\ ml.confidence > ML_VOTE_FLOOR
    THEN addScore(cands, ml.className, ml.confidence, "ML")
    ELSE cands

\* mutation: a later entry with an equal score replaces the winner (>= for >)
RECURSIVE pickWinner_last(_, _, _, _)
pickWinner_last(cands, i, winner, maxScore) ==
    IF i > Len(cands) THEN [winner |-> winner, maxScore |-> maxScore]
    ELSE IF cands[i].score >= maxScore
         THEN pickWinner_last(cands, i + 1, i, cands[i].score)
         ELSE pickWinner_last(cands, i + 1, winner, maxScore)

\* 3. WINNER SELECTION: first entry with the strictly greatest score above 0
RECURSIVE pickWinner(_, _, _, _)
pickWinner(cands, i, winner, maxScore) ==
    IF i > Len(cands) THEN [winner |-> winner, maxScore |-> maxScore]
    ELSE IF cands[i].score > maxScore
         THEN pickWinner(cands, i + 1, i, cands[i].score)
         ELSE pickWinner(cands, i + 1, winner, maxScore)

\* mutation: "HYBRID" needs both sources
winnerMethod_both(sources) == IF {"RULE", "ML"} \subseteq sources THEN "HYBRID" ELSE "ML"

\* the method tag of an accepted winner (variant A)
winnerMethod(sources) == IF "RULE" \in sources THEN "HYBRID" ELSE "ML"

\* the candidates object after both votings
candidatesA(fr) == mlVote(ruleVotes(<<>>, fr.rules, 1), fr.ml)

\* mutation: an exception of detectSingleHandML escapes detectMudraHybrid
detectMudraHybridA_noCatch(fr) ==
    LET cands == candidatesA(fr)
        w     == pickWinner(cands, 1, 0, 0)
    IN  IF fr.ml.status = "throw" THEN Rejected
        ELSE IF w.winner # 0 /\ w.maxScore > HYBRID_THRESHOLD
        THEN Det(cands[w.winner].name, Min(100, w.maxScore),
                 winnerMethod(cands[w.winner].sources))
        ELSE Det("Unknown", 0, "ML")

\* mutation: the winning score is returned uncapped
detectMudraHybridA_uncapped(fr) ==
    LET cands == candidatesA(fr)
        w     == pickWinner(cands, 1, 0, 0)
    IN  IF w.winner # 0 /\ w.maxScore > HYBRID_THRESHOLD
        THEN Det(cands[w.winner].name, w.maxScore,
                 winnerMethod(cands[w.winner].sources))
        ELSE Det("Unknown", 0, "ML")

detectMudraHybridA(fr) ==
    LET cands == candidatesA(fr)
        w     == pickWinner(cands, 1, 0, 0)
    IN  IF w.winner # 0 /\ w.maxScore > HYBRID_THRESHOLD
        THEN Det(cands[w.winner].name, Min(100, w.maxScore),
                 winnerMethod(cands[w.winner].sources))
        ELSE Det("Unknown", 0, "ML")

\* Step 1 of variant B: the first evaluator that returns true, 0 if none
RECURSIVE firstRule(_, _)
firstRule(rules, i) ==
    IF i > Len(RULE_NAMES) THEN 0
    ELSE CASE rules[i] = "true"  -> i                         \* return {...}
           [] rules[i] = "false" -> firstRule(rules, i + 1)
           [] rules[i] = "throw" -> firstRule(rules, i + 1)   \* continue

\* what isHandSteady is given: no previous landmarks, previous landmarks from
\* which a key landmark lies farther than the threshold, or previous landmarks
\* with every key landmark within the threshold
MOTIONS == {"noPrev", "moved", "still"}

\* mutation: a frame without previous landmarks counts as steady
isHandSteady_lenient(m) ==
    CASE m = "noPrev" -> TRUE
      [] m = "moved"  -> FALSE
      [] m = "still"  -> TRUE

\* isHandSteady(landmarks, prevLandmarks, STABILITY_DISTANCE_THRESHOLD)
isHandSteady(m) ==
    CASE m = "noPrev" -> FALSE      \* if (!prevLandmarks) return false
      [] m = "moved"  -> FALSE      \* if (distance > threshold) return false
      [] m = "still"  -> TRUE

\* mutation: the classifier's answer is accepted only above ML_CONF_THRESHOLD
detectMudraHybridB_strict(fr) ==
    LET r == firstRule(fr.rules, 1)
    IN  IF r # 0 THEN Det(RULE_NAMES[r], 100, "RULE")
        ELSE IF ~fr.steady THEN Det("Stabilizing...", 0, NULL)
        ELSE IF fr.ml.status = "ok"
             THEN IF fr.ml.confidence > ML_CONF_THRESHOLD
                  THEN Det(fr.ml.className, fr.ml.confidence, "ML")
                  ELSE Det("Unknown", fr.ml.confidence, "ML")
             ELSE Det("Unknown", 0, "ML")

detectMudraHybridB(fr) ==
    LET r == firstRule(fr.rules, 1)
    IN  IF r # 0 THEN Det(RULE_NAMES[r], 100, "RULE")
        ELSE IF ~fr.steady THEN Det("Stabilizing...", 0, NULL)
        ELSE IF fr.ml.status = "ok"
             THEN IF fr.ml.confidence >= ML_CONF_THRESHOLD
                  THEN Det(fr.ml.className, fr.ml.confidence, "ML")
                  ELSE Det("Unknown", fr.ml.confidence, "ML")
             ELSE Det("Unknown", 0, "ML")

\* detectMudraHybrid calls detectSingleHandML on the frame
callsClassifier(v, fr) ==
    /\ fr.ml.status # "uninit"      \* window.MudraInference.isInitialized()
    /\ v = "B" => (firstRule(fr.rules, 1) = 0 /\ fr.steady)

detectMudraHybrid(v, fr) ==
    IF v = "A" THEN detectMudraHybridA(fr) ELSE detectMudraHybridB(fr)

\* the candidates object of the invocation (variant B keeps none)
candidatesOf(v, fr) == IF v = "A" THEN candidatesA(fr) ELSE <<>>

\* the registry positions i..end whose evaluator the rule loop calls: all of
\* them in variant A, those up to the first that returns true in variant B
RECURSIVE invokedRules(_, _, _)
invokedRules(v, rules, i) ==
    IF i > Len(RULE_NAMES) THEN {}
    ELSE CASE rules[i] = "true" ->    \* variant B returns its result here
                IF v = "B" THEN {i} ELSE {i} \cup invokedRules(v, rules, i + 1)
           [] rules[i] = "false" -> {i} \cup invokedRules(v, rules, i + 1)
           [] rules[i] = "throw" ->   \* catch (e) { continue; }
                {i} \cup invokedRules(v, rules, i + 1)

----------------------------------------------------------------------------
(* History variables.  They are computed from the state before a call and   *)
(* from the call's arguments only, never from what the FSM does with them.  *)

ZeroCounters(f) == f.enterCount = 0 /\ f.exitCount = 0 /\ f.mismatchCount = 0

\* name is a pose name that belongs to no confusable pair
Plain(name) == ~Falsy(name) /\ ~isConfusingPair(name, name)

\* frames (true, X, 0.9, "ML") with one plain X, counted from a call made in
\* HAND_DETECTED with zeroed counters; 0 when the last call is no such frame
nextEntryRun(f, handPresent, name, conf, meth) ==
    IF handPresent /\ Plain(name) /\ conf = 90 /\ meth = "ML"
    THEN IF f.state = "HAND_DETECTED" /\ ZeroCounters(f) THEN 1
         ELSE IF entryRun > 0 /\ name = entryPose THEN Min(entryRun + 1, MaxRun)
         ELSE 0
    ELSE 0

\* consecutive frames with a hand whose name differs from the committed pose,
\* counted from a call made in CONFIRMED_MUDRA; 0 when the last call is none
nextDiffRun(f, handPresent, name) ==
    IF handPresent /\ name # f.currentMudra
    THEN IF f.state = "CONFIRMED_MUDRA" THEN 1
         ELSE IF f.state = "EXITING_MUDRA" /\ diffRun > 0 THEN Min(diffRun + 1, MaxRun)
         ELSE 0
    ELSE 0

NoTentative == [agreed |-> 0, missRun |-> 0]

\* while a pose stays tentative over the call (g is the FSM after it): the
\* frames naming it, the entering frame included, and the frames naming
\* something else since the last of those
nextTentative(f, g, handPresent, name) ==
    IF ~handPresent \/ g.state # "ENTERING_MUDRA" THEN NoTentative
    ELSE IF f.state # "ENTERING_MUDRA" THEN [agreed |-> 1, missRun |-> 0]
    ELSE IF name = f.currentMudra
         THEN [agreed |-> tentative.agreed + 1, missRun |-> 0]
         ELSE [agreed |-> tentative.agreed,
               missRun |-> Min(tentative.missRun + 1, MaxRun)]

----------------------------------------------------------------------------
(* The state machine *)

\* a call record: the operation, the FSM state tag it was made in, its arguments
Call(op, from, handPresent, name, conf, meth) ==
    [op |-> op, from |-> from, handPresent |-> handPresent, name |-> name,
     conf |-> conf, method |-> meth]

NoCall == Call("new", NULL, FALSE, NULL, 0, NULL)
NoRet  == Ret(NULL, 0, NULL)

\* new MudraFSM()
Init ==
    /\ variant \in Variants
    /\ fsm = NewFSM(variant)
    /\ call = NoCall
    /\ ret = NoRet
    /\ frame = NoFrame
    /\ det = NoDet
    /\ candidates = <<>>
    /\ invoked = {}
    /\ pending = <<>>
    /\ featureTensor = 0
    /\ frameNo = 0
    /\ applied = 0
    /\ rawName = NULL
    /\ normName = NULL
    /\ motion = "noPrev"
    /\ landmarks = <<>>
    /\ currentIndex = 1
    /\ matchCounter = 0
    /\ inFlight = <<>>
    /\ successTimers = 0
    /\ ghostOp = "init"
    /\ streak = 0
    /\ earned = FALSE
    /\ verdict = <<>>
    /\ pythonProcess = NULL
    /\ children = <<>>
    /\ isPythonReady = FALSE
    /\ detectQueue = <<>>
    /\ stdinPipe = <<>>
    /\ stdoutPipe = <<>>
    /\ resolutions = <<>>
    /\ issued = 0
    /\ entryRun = 0
    /\ entryPose = NULL
    /\ diffRun = 0
    /\ exitPose = NULL
    /\ tentative = NoTentative

\* one call fsm.update(handPresent, name, conf, meth)
DoUpdate(op, handPresent, name, conf, meth) ==
    /\ call' = Call(op, fsm.state, handPresent, name, conf, meth)
    /\ LET r == update(variant, fsm, handPresent, name, conf, meth)
       IN  fsm' = r.fsm /\ ret' = r.ret
    /\ entryRun' = nextEntryRun(fsm, handPresent, name, conf, meth)
    /\ entryPose' = IF entryRun' = 0 THEN NULL ELSE name
    /\ diffRun' = nextDiffRun(fsm, handPresent, name)
    /\ exitPose' = IF diffRun' = 0 THEN NULL ELSE fsm.currentMudra
    /\ tentative' = nextTentative(fsm, fsm', handPresent, name)
    /\ UNCHANGED <<variant, auxVars>>

\* MudraFSM.update called with a candidate name of `names` and any other arguments
UpdateWith(names) ==
    \E handPresent \in BOOLEAN, name \in names, conf \in Confs,
       meth \in InputMethods :
        /\ DoUpdate("update", handPresent, name, conf, meth)
        /\ UNCHANGED <<scorerVars, asyncVars>>

\* MudraFSM.update called with arbitrary arguments, a left-out name included
Update == UpdateWith(InputNames)

\* MudraFSM.update called as documented: candidateName is a string or null
UpdateDocumented == UpdateWith(PoseNames \cup {NULL})

\* MudraFSM.reset called from outside
Reset ==
    /\ fsm' = reset(fsm)
    /\ call' = Call("reset", fsm.state, FALSE, NULL, 0, NULL)
    /\ ret' = NoRet
    /\ entryRun' = 0
    /\ entryPose' = NULL
    /\ diffRun' = 0
    /\ exitPose' = NULL
    /\ tentative' = NoTentative
    /\ UNCHANGED <<variant, scorerVars, asyncVars, auxVars>>

Next == Update \/ Reset

\* the FSM alone, driven with every argument combination
Spec == Init /\ [][Next]_vars

\* MudraFSM.update called with the names detectMudraHybrid of variant B returns
\* as they are: registry keys and classifier labels
UpdateRaw == UpdateWith({RULE_NAMES[2], "Pathaka", NULL})

NextRaw == UpdateRaw \/ Reset

\* the FSM alone, driven with raw rule and classifier names
SpecRaw == Init /\ [][NextRaw]_vars

NextDocumented == UpdateDocumented \/ Reset

\* the FSM alone, driven with its documented inputs only
SpecDocumented == Init /\ [][NextDocumented]_vars

\* any call of update with a string or null as name, made before the steady
\* feeding has begun (update tests no confidence, so these calls use one)
UpdateEarly ==
    /\ call.op # "feed"
    /\ \E handPresent \in BOOLEAN, name \in PoseNames \cup {NULL},
          meth \in InputMethods :
           /\ DoUpdate("update", handPresent, name, 100, meth)
           /\ UNCHANGED <<scorerVars, asyncVars>>

\* reset() from outside, before the steady feeding has begun
ResetEarly == call.op # "feed" /\ Reset

\* from some frame on every call is update(true, X, conf, meth) with one pose
\* name X; confidence and method are free on every frame
Feed ==
    \E name \in PoseNames, conf \in Confs, meth \in InputMethods :
        /\ call.op = "feed" => name = call.name
        /\ DoUpdate("feed", TRUE, name, conf, meth)
        /\ UNCHANGED <<scorerVars, asyncVars>>

NextLive == UpdateEarly \/ ResetEarly \/ Feed

\* the FSM driven arbitrarily and then with one pose for good; the detection
\* loop calls update on every camera frame, so frames keep arriving
SpecLive == Init /\ [][NextLive]_vars /\ WF_vars(Feed)

\* the frames of a variant: isHandSteady is computed by variant B only
FramesOf(v) == {fr \in Frames : v = "A" => ~fr.steady}

\* the frames the pipeline is driven with: a classifier that answers does so
\* with a confidence below or above the acceptance thresholds (the thresholds
\* themselves are the scorer's matter, see ScorerFrames)
PipelineFrames(v) ==
    {fr \in FramesOf(v) : fr.ml.status = "ok" => fr.ml.confidence \in {40, 90}}

\* one frame with a hand: detectMudraHybrid, then its result handed unchanged
\* to MudraFSM.update as candidate name, confidence and method
Frame ==
    \E fr \in PipelineFrames(variant) :
        /\ frame' = fr
        /\ det' = detectMudraHybrid(variant, fr)
        /\ candidates' = candidatesOf(variant, fr)
        /\ invoked' = invokedRules(variant, fr.rules, 1)
        /\ DoUpdate("frame", TRUE, det'.mudraName, det'.confidence, det'.method)
        /\ UNCHANGED asyncVars

\* one frame on which the tracker reports no hand
HandLost ==
    /\ DoUpdate("nohand", FALSE, NULL, 0, NULL)
    /\ frame' = NoFrame
    /\ det' = NoDet
    /\ candidates' = <<>>
    /\ invoked' = {}
    /\ UNCHANGED asyncVars

NextPipeline == Frame \/ HandLost

\* the per-frame pipeline: scorer and FSM together
SpecPipeline == Init /\ [][NextPipeline]_vars

----------------------------------------------------------------------------
(* detectMudraHybrid alone, called on every frame of ScorerFrames *)

\* classifier confidences around the vote floor 0.3 and the thresholds 0.55
SCORER_CONFS == {20, 30, 40, 55, 56, 90, 100}

ScorerMLAnswers ==
    MLAnswers \cup [status : {"ok"}, className : SCORER_CLASSES, confidence : SCORER_CONFS]

\* variant A does not call isHandSteady
ScorerFrames(v) ==
    {fr \in [rules : [1..Len(RULE_NAMES) -> RuleOutcomes], steady : BOOLEAN,
             ml : ScorerMLAnswers] : v = "A" => ~fr.steady}

Score ==
    \E fr \in ScorerFrames(variant), m \in MOTIONS :
        /\ variant = "B" => fr.steady = isHandSteady(m)
        /\ motion' = m
        /\ frame' = fr
        /\ det' = detectMudraHybrid(variant, fr)
        /\ candidates' = candidatesOf(variant, fr)
        /\ invoked' = invokedRules(variant, fr.rules, 1)
        /\ UNCHANGED <<variant, fsm, call, ret, asyncVars, histVars, normVars, geomVars, ghostVars, ipcVars>>

SpecScorer == Init /\ [][Score]_vars

----------------------------------------------------------------------------
(* normalizeMudraName alone, called on the spellings of the canonical names *)

\* String.prototype.toUpperCase
toUpperCase(s) == [i \in 1..Len(s) |-> toUpperChar(s[i])]

\* every word capitalised, as the registry writes its names
titleCase(s) ==
    [i \in 1..Len(s) |-> IF i = 1 \/ s[i - 1] = " " THEN toUpperChar(s[i]) ELSE s[i]]

\* a canonical name as given, in lower case, in upper case, with " Mudra"
SpellingsOfName(C) ==
    {C, StringOf(toLowerCase(CharsOf[C])), StringOf(toUpperCase(CharsOf[C])),
     StringOf(CharsOf[C] \o <<" ", "M", "u", "d", "r", "a">>)}

\* a key of the map as written, in upper case, with capitalised words
SpellingsOfKey(k) ==
    {k, StringOf(toUpperCase(CharsOf[k])), StringOf(titleCase(CharsOf[k]))}

\* the spellings of the canonical name C
SpellingsOf(C) ==
    SpellingsOfName(C)
      \cup UNION {SpellingsOfKey(k) :
                    k \in {x \in DOMAIN MUDRA_NORMALIZATION_MAP :
                              MUDRA_NORMALIZATION_MAP[x] = C}}

NormInputs == RawNames \cup UNION {SpellingsOf(C) : C \in CANONICAL_MUDRAS}

Normalize ==
    \E name \in NormInputs :
        /\ rawName' = name
        /\ normName' = normalizeMudraName(name)
        /\ UNCHANGED <<variant, fsm, call, ret, scorerVars, asyncVars, histVars, geomVars, steadyVars, ghostVars, ipcVars>>

SpecNormalize == Init /\ [][Normalize]_vars

----------------------------------------------------------------------------
(* The per-frame pipeline with its suspension point.  detectMudraHybrid is  *)
(* an async function: it runs up to `await detectSingleHandML(landmarks)`,  *)
(* which has written the frame's features into the shared _featureTensor    *)
(* and awaits rfSession.run, and it finishes when that promise settles.     *)
(* The page that receives the tracker's frames accepts a frame only when no *)
(* invocation is in flight.                                                 *)

MaxFrames == 4

\* mutation: a frame is accepted while an invocation is in flight
mayAccept_always(q) == TRUE

\* the gate of the frame callback: no pipeline invocation is in flight
mayAccept(q) == q = <<>>

\* the invocation reaches extractMLFeatures, which fills the shared buffer
writesFeatures(v, fr) ==
    /\ fr.ml.status = "ok"
    /\ v = "B" => (firstRule(fr.rules, 1) = 0 /\ fr.steady)

\* the frames this pipeline is driven with: the Pataka rule fires or no rule
\* does, the classifier is not initialised or answers Chakra
AsyncFrames(v) ==
    {fr \in FramesOf(v) :
        /\ fr.rules[1] = "false"
        /\ fr.rules[2] # "throw"
        /\ (v = "B" => fr.steady)
        /\ \/ fr.ml.status = "uninit"
           \/ fr.ml.className = "Chakra" /\ fr.ml.confidence = 90}

\* a frame with a hand arrives: detectMudraHybrid starts and suspends
FrameStart ==
    /\ frameNo < MaxFrames
    /\ mayAccept(pending)
    /\ \E fr \in AsyncFrames(variant) :
          /\ pending' = Append(pending, [no |-> frameNo + 1, frame |-> fr])
          /\ featureTensor' = IF writesFeatures(variant, fr) THEN frameNo + 1
                               ELSE featureTensor
    /\ frameNo' = frameNo + 1
    /\ UNCHANGED <<variant, fsm, call, ret, scorerVars, applied, histVars, auxVars>>

\* the awaited classifier call of a suspended invocation settles: the
\* invocation returns and its result is handed to MudraFSM.update
Settle ==
    \E i \in 1..Len(pending) :
        /\ pending' = SubSeq(pending, 1, i - 1) \o SubSeq(pending, i + 1, Len(pending))
        /\ frame' = pending[i].frame
        /\ det' = detectMudraHybrid(variant, frame')
        /\ candidates' = candidatesOf(variant, frame')
        /\ invoked' = invokedRules(variant, frame'.rules, 1)
        /\ DoUpdate("frame", TRUE, det'.mudraName, det'.confidence, det'.method)
        /\ applied' = pending[i].no
        /\ UNCHANGED <<featureTensor, frameNo>>

\* a frame without a hand arrives: MudraFSM.update(false, ...) at once
FrameNoHand ==
    /\ frameNo < MaxFrames
    /\ mayAccept(pending)
    /\ DoUpdate("nohand", FALSE, NULL, 0, NULL)
    /\ frame' = NoFrame
    /\ det' = NoDet
    /\ candidates' = <<>>
    /\ invoked' = {}
    /\ frameNo' = frameNo + 1
    /\ applied' = frameNo + 1
    /\ UNCHANGED <<pending, featureTensor>>

NextAsync == FrameStart \/ Settle \/ FrameNoHand

SpecAsync == Init /\ [][NextAsync]_vars

----------------------------------------------------------------------------
(* The rule evaluators of RULE_MUDRA_FUNCTIONS and the geometry they use.   *)
(*                                                                          *)
(* Encoding.  A landmark is a point [x, y] on a grid whose step is 0.01 of  *)
(* the frame (MediaPipe coordinates are fractions of the frame).  Lengths   *)
(* are integers in tenths of a grid step (0.001 of the frame), rounded      *)
(* down.  getScaleRef adds 1e-6 to the wrist-to-middle-MCP length so that   *)
(* the quotients by it are defined; that term is smaller than any           *)
(* difference of two lengths on the grid, so it decides only the            *)
(* comparisons that are ties on the grid: with s the length without the     *)
(* term, q / scaleRef > c is q > c * s and q / scaleRef < c is q <= c * s.  *)
(* Where both sides of a comparison are quotients by scaleRef, it cancels.  *)

Pt(x, y) == [x |-> x, y |-> y]

Abs(n) == IF n < 0 THEN -n ELSE n

\* the largest r in lo..(hi - 1) with r * r <= n
RECURSIVE SqrtBetween(_, _, _)
SqrtBetween(n, lo, hi) ==
    IF hi - lo <= 1 THEN lo
    ELSE LET mid == (lo + hi) \div 2
         IN  IF mid * mid <= n THEN SqrtBetween(n, mid, hi)
                               ELSE SqrtBetween(n, lo, mid)

\* Math.hypot(dx, dy), in tenths of a grid step
hypot(dx, dy) ==
    SqrtBetween((dx * dx + dy * dy) * 100, 0, 10 * (Abs(dx) + Abs(dy)) + 1)

getDistance(a, b) == hypot(a.x - b.x, a.y - b.y)

\* getScaleRef(landmarks) without its 1e-6
getScaleRef(lm) == getDistance(lm[0], lm[9])

\* q / scaleRef > c and q / scaleRef < c, c in hundredths
ndAbove(q, c, s) == q * 100 > c * s
ndBelow(q, c, s) == q * 100 <= c * s

\* q / scaleRef > c * scaleRef and q / scaleRef < c * scaleRef: the right-hand
\* side is a length in frame units, 1000 tenths of a grid step to the frame
ndAboveScaled(q, c, s) == q * 100000 > c * s * s
ndBelowScaled(q, c, s) == q * 100000 <= c * s * s

\* getAngle(a, b, c, landmarks) > 170: a zero-length side yields 180
getAngleOver170(a, b, c, lm) ==
    LET v1x == lm[a].x - lm[b].x
        v1y == lm[a].y - lm[b].y
        v2x == lm[c].x - lm[b].x
        v2y == lm[c].y - lm[b].y
        dot == v1x * v2x + v1y * v2y
        m1  == v1x * v1x + v1y * v1y
        m2  == v2x * v2x + v2y * v2y
    IN  IF m1 = 0 \/ m2 = 0 THEN TRUE
        ELSE dot < 0 /\ dot * dot * 1000 > 970 * m1 * m2

\* the null that angleBetween returns
NoAngle == [dot |-> 0, magSq |-> 0]

\* angleBetween(v1, v2): null on a zero vector, else the angle, kept as its
\* dot product and the product of the squared magnitudes
angleBetween(v1, v2) ==
    LET m1 == v1.x * v1.x + v1.y * v1.y
        m2 == v2.x * v2.x + v2.y * v2.y
    IN  IF m1 = 0 \/ m2 = 0 THEN NoAngle
        ELSE [dot |-> v1.x * v2.x + v1.y * v2.y, magSq |-> m1 * m2]

\* ang > 35
angleOver35(ang) == ang.dot <= 0 \/ ang.dot * ang.dot * 1000 < 671 * ang.magSq

\* isFingerStraight(landmarks, mcp, pip, tip, threshold), threshold in hundredths
isFingerStraight(lm, mcp, pip, tip, threshold) ==
    LET mcpPip == getDistance(lm[mcp], lm[pip])
        pipTip == getDistance(lm[pip], lm[tip])
        mcpTip == getDistance(lm[mcp], lm[tip])
        total  == mcpPip + pipTip
    IN  IF total = 0 THEN FALSE ELSE mcpTip * 100 > threshold * total

isPatakaMudra(lm, s) ==
    IF ~(/\ isFingerStraight(lm, 5, 6, 8, 97)
         /\ isFingerStraight(lm, 9, 10, 12, 97)
         /\ isFingerStraight(lm, 13, 14, 16, 97)
         /\ isFingerStraight(lm, 17, 18, 20, 97)) THEN FALSE
    ELSE IF ndAbove(getDistance(lm[8], lm[20]), 60, s) THEN FALSE
    ELSE getDistance(lm[4], lm[5]) * 10 < getDistance(lm[5], lm[9]) * 15

\* variant A reads `scaleRef`, which is no binding of the function (its
\* parameter is `scale`) nor of the script: evaluating it throws ReferenceError
isTripatakaMudraA(lm, s) ==
    IF ~isFingerStraight(lm, 5, 6, 8, 94) THEN "false"
    ELSE IF ~isFingerStraight(lm, 9, 10, 12, 94) THEN "false"
    ELSE IF ~isFingerStraight(lm, 17, 18, 20, 94) THEN "false"
    ELSE IF isFingerStraight(lm, 13, 14, 16, 88) THEN "false"
    ELSE "throw"

isTripatakaMudraB(lm, s) ==
    IF ~isFingerStraight(lm, 5, 6, 8, 94) THEN "false"
    ELSE IF ~isFingerStraight(lm, 9, 10, 12, 94) THEN "false"
    ELSE IF ~isFingerStraight(lm, 17, 18, 20, 94) THEN "false"
    ELSE IF isFingerStraight(lm, 13, 14, 16, 88) THEN "false"
    ELSE IF ndBelowScaled(getDistance(lm[4], lm[16]), 90, s) THEN "false"
    ELSE IF ndAboveScaled(getDistance(lm[4], lm[5]), 160, s) THEN "false"
    ELSE "true"

isMusthiMudra(lm, s) ==
    IF ~(/\ ~isFingerStraight(lm, 5, 6, 8, 80)
         /\ ~isFingerStraight(lm, 9, 10, 12, 80)
         /\ ~isFingerStraight(lm, 13, 14, 16, 80)
         /\ ~isFingerStraight(lm, 17, 18, 20, 80)) THEN FALSE
    ELSE LET touchThreshold == getDistance(lm[5], lm[9]) * 15
         IN  \/ getDistance(lm[4], lm[6]) * 10 < touchThreshold
             \/ getDistance(lm[4], lm[10]) * 10 < touchThreshold

isSuchiMudra(lm, s) ==
    LET ref == getDistance(lm[5], lm[9])
        touchThresh == ref * 16
    IN
    IF ~(getAngleOver170(5, 6, 7, lm) /\ getAngleOver170(6, 7, 8, lm)) THEN FALSE
    ELSE IF getDistance(lm[8], lm[0]) <= getDistance(lm[5], lm[0]) THEN FALSE
    ELSE IF isFingerStraight(lm, 9, 10, 12, 75) THEN FALSE
    ELSE IF isFingerStraight(lm, 13, 14, 16, 75) THEN FALSE
    ELSE IF isFingerStraight(lm, 17, 18, 20, 75) THEN FALSE
    ELSE IF ref = 0 THEN FALSE
    ELSE IF ~(\/ getDistance(lm[4], lm[10]) * 10 < touchThresh
              \/ getDistance(lm[4], lm[11]) * 10 < touchThresh
              \/ getDistance(lm[4], lm[14]) * 10 < touchThresh
              \/ getDistance(lm[4], lm[15]) * 10 < touchThresh) THEN FALSE
    ELSE IF getDistance(lm[4], lm[8]) * 10 < ref * 20 THEN FALSE
    ELSE TRUE

isAralaMudra(lm, s) ==
    IF isFingerStraight(lm, 5, 6, 8, 85) THEN FALSE
    ELSE IF ~(/\ isFingerStraight(lm, 9, 10, 12, 97)
              /\ isFingerStraight(lm, 13, 14, 16, 97)
              /\ isFingerStraight(lm, 17, 18, 20, 97)) THEN FALSE
    ELSE IF ~(/\ ndBelowScaled(getDistance(lm[12], lm[16]), 120, s)
              /\ ndBelowScaled(getDistance(lm[16], lm[20]), 120, s)
              /\ ndBelowScaled(getDistance(lm[12], lm[20]), 120, s)) THEN FALSE
    ELSE isFingerStraight(lm, 2, 3, 4, 93)

isHamsasyaMudra(lm, s) ==
    IF ndAboveScaled(getDistance(lm[4], lm[8]), 28, s) THEN FALSE
    ELSE IF isFingerStraight(lm, 5, 6, 8, 94) THEN FALSE
    ELSE /\ isFingerStraight(lm, 9, 10, 12, 93)
         /\ isFingerStraight(lm, 13, 14, 16, 92)
         /\ isFingerStraight(lm, 17, 18, 20, 90)

isMrigasheersha(lm, s) ==
    IF ~(/\ isFingerStraight(lm, 17, 18, 20, 85)
         /\ isFingerStraight(lm, 2, 3, 4, 80)
         /\ ~isFingerStraight(lm, 5, 6, 8, 85)
         /\ ~isFingerStraight(lm, 9, 10, 12, 85)
         /\ ~isFingerStraight(lm, 13, 14, 16, 85)) THEN FALSE
    ELSE LET vThumb == Pt(lm[4].x - lm[2].x, lm[4].y - lm[2].y)
             vHand  == Pt(lm[9].x - lm[0].x, lm[9].y - lm[0].y)
             ang    == angleBetween(vThumb, vHand)
         IN  IF ang = NoAngle THEN FALSE ELSE angleOver35(ang)

Outcome(b) == IF b THEN "true" ELSE "false"

\* the entries of RULE_MUDRA_FUNCTIONS that are modelled
EVALUATORS ==
    {"Musthi Mudra", "Suchi Mudra", "Hamsasya Mudra", "Tripataka Mudra",
     "Mrigasheersha Mudra", "Arala Mudra", "Pataka Mudra"}

\* RULE_MUDRA_FUNCTIONS[name](landmarks, scaleRef) in variant v: "true", "false",
\* or "throw"
checkFunc(v, name, lm, s) ==
    CASE name = "Musthi Mudra"        -> Outcome(isMusthiMudra(lm, s))
      [] name = "Suchi Mudra"         -> Outcome(isSuchiMudra(lm, s))
      [] name = "Hamsasya Mudra"      -> Outcome(isHamsasyaMudra(lm, s))
      [] name = "Tripataka Mudra"     ->
            IF v = "A" THEN isTripatakaMudraA(lm, s) ELSE isTripatakaMudraB(lm, s)
      [] name = "Mrigasheersha Mudra" -> Outcome(isMrigasheersha(lm, s))
      [] name = "Arala Mudra"         -> Outcome(isAralaMudra(lm, s))
      [] name = "Pataka Mudra"        -> Outcome(isPatakaMudra(lm, s))

(* The hands the evaluators are given.  A hand is drawn at scale 1 with the *)
(* wrist at (30, 70), the four finger MCPs on the line y = 50 and a palm    *)
(* length of 20 steps (0.2 of the frame); each finger is straight or        *)
(* curled, the thumb tip is in one of four places, and one pair of          *)
(* landmarks may coincide.                                                  *)
FINGER_MCPS == {5, 9, 13, 17}
FingerPoses == [FINGER_MCPS -> {"straight", "bent"}]

ThumbTips ==
    [out        |-> Pt(8, 52),     \* thumb extended sideways
     tucked     |-> Pt(24, 54),    \* against the index MCP
     onFingers  |-> Pt(28, 44),    \* over the curled index and middle fingers
     onIndexTip |-> Pt(24, 46)]    \* next to the tip of a curled index finger

Degeneracies == {"none", "dipOnPip", "mcpOnWrist", "tipOnBase"}

HandOf(fingers, thumb, degenerate) ==
    [i \in 0..20 |->
        CASE i = 0 -> Pt(30, 70)
          [] i = 1 -> Pt(24, 64)
          [] i = 2 -> Pt(20, 58)
          [] i = 3 -> Pt(14, 55)
          [] i = 4 -> IF degenerate = "tipOnBase" THEN Pt(20, 58) ELSE ThumbTips[thumb]
          [] OTHER ->
                LET mcp == 5 + 4 * ((i - 5) \div 4)
                    x   == 21 + mcp
                    straight == fingers[mcp] = "straight"
                IN  CASE i = mcp ->
                            IF mcp = 9 /\ degenerate = "mcpOnWrist"
                            THEN Pt(30, 70) ELSE Pt(x, 50)
                      [] i = mcp + 1 -> Pt(x, 40)
                      [] i = mcp + 2 ->
                            IF mcp = 5 /\ degenerate = "dipOnPip" THEN Pt(x, 40)
                            ELSE IF straight THEN Pt(x, 34) ELSE Pt(x + 2, 42)
                      [] i = mcp + 3 -> IF straight THEN Pt(x, 28) ELSE Pt(x, 46)]

\* the scales the hand is seen at, as twice the factor: 0.5, 1, 2
SCALES == {1, 2, 4}

Scaled(lm, h) == [i \in DOMAIN lm |-> Pt((lm[i].x * h) \div 2, (lm[i].y * h) \div 2)]

\* what every evaluator of variant v does on the hand lm at each scale
verdictsOf(v, lm) ==
    [h \in SCALES |->
        [name \in EVALUATORS |->
            checkFunc(v, name, Scaled(lm, h), getScaleRef(Scaled(lm, h)))]]

\* verdictsOf on every hand, computed once
Verdicts ==
    [v \in Variants, fingers \in FingerPoses, thumb \in DOMAIN ThumbTips,
     degenerate \in Degeneracies |-> verdictsOf(v, HandOf(fingers, thumb, degenerate))]
        @@ <<>>

\* the rule loop of detectMudraHybrid calls every evaluator on the frame's
\* landmarks with the frame's scaleRef
Evaluate ==
    \E fingers \in FingerPoses, thumb \in DOMAIN ThumbTips, degenerate \in Degeneracies :
        /\ landmarks' = HandOf(fingers, thumb, degenerate)
        /\ verdict' = Verdicts[variant, fingers, thumb, degenerate]
        /\ UNCHANGED <<variant, fsm, call, ret, scorerVars, asyncVars, histVars, normVars, steadyVars, ghostVars, ipcVars>>

SpecGeometry == Init /\ [][Evaluate]_vars

----------------------------------------------------------------------------
(* Ghost-mode practice (js/ghost-mode.js).  Every 200 ms detectMudra sends   *)
(* the current video frame to the detection server and, when the answer      *)
(* arrives, hands the detected name to checkMatch; nothing keeps a second    *)
(* request from being sent while one is unanswered, and answers may arrive   *)
(* in any order.  The user steps through the poses with Next and Previous.   *)

\* three entries of `mudras`, in its order (positions 0, 1 and 6 of the list)
mudras == <<"Pataka", "Tripataka", "Arala">>

MATCH_THRESHOLD == 3

MaxInFlight == 2
MaxTimers == 2

\* a request that fails, or is answered without data.success
FAIL == "<fail>"

\* the data.mudra of an answer, or FAIL
Responses == {"Pataka", "Tripataka Mudra", "Musthi Mudra", FAIL}

\* the mapping of ghost-mode's normalizeMudraName (eight of its nine entries)
GHOST_MAPPING ==
    ("musthi" :> "musti") @@ ("shikharam" :> "sikharam")
      @@ ("shukatundam" :> "sukatunda") @@ ("kartarimukham" :> "kartarimukha")
      @@ ("trishula" :> "trisula") @@ ("mrigasheersha" :> "mrugashirsha")
      @@ ("chautra" :> "chatura") @@ ("simhamukha" :> "simhamukha")

\* ghost-mode's normalizeMudraName(backendName), as characters
ghostNormalize(backendName) ==
    LET name == trim(removeWhitespace(replaceFirst(toLowerCase(CharsOf[backendName]),
                        <<" ", "m", "u", "d", "r", "a">>, <<>>)))
        keys == {k \in DOMAIN GHOST_MAPPING : CharsOf[k] = name}
    IN  IF Falsy(backendName) THEN <<>>
        ELSE IF keys # {} THEN CharsOf[GHOST_MAPPING[CHOOSE k \in keys : TRUE]]
        ELSE name

\* String.prototype.includes
includes(s, pat) == indexOf(s, pat) # 0

\* checkMatch: isMatch
isMatch(detectedMudra, targetMudra) ==
    LET d == ghostNormalize(detectedMudra)
        t == trim(toLowerCase(CharsOf[targetMudra]))
    IN  d = t \/ includes(d, t) \/ includes(t, d)

\* isMatch on the names of the model, computed once
Matches ==
    [detectedMudra \in Responses \ {FAIL}, i \in DOMAIN mudras |->
        isMatch(detectedMudra, mudras[i])] @@ <<>>

\* the state of the rest of the program, which ghost mode does not touch
notGhostVars ==
    <<variant, fsm, call, ret, scorerVars, asyncVars, histVars, normVars, geomVars,
      steadyVars, ipcVars>>

RemoveAt(q, i) == SubSeq(q, 1, i - 1) \o SubSeq(q, i + 1, Len(q))

\* setInterval(detectMudra, DETECTION_INTERVAL): a frame is captured and sent
Tick ==
    /\ Len(inFlight) < MaxInFlight
    /\ \E r \in Responses : inFlight' = Append(inFlight, r)
    /\ ghostOp' = "tick"
    /\ UNCHANGED <<currentIndex, matchCounter, successTimers, streak, earned>>
    /\ UNCHANGED notGhostVars

\* the answer of one request arrives: detectMudra resumes and calls
\* checkMatch(mudra), which may call triggerSuccess
Complete ==
    \E i \in DOMAIN inFlight :
        /\ inFlight' = RemoveAt(inFlight, i)
        /\ IF inFlight[i] = FAIL
           THEN /\ ghostOp' = "fail"
                /\ UNCHANGED <<matchCounter, successTimers, streak, earned>>
           ELSE LET match     == Matches[inFlight[i], currentIndex]
                    counted   == IF match THEN matchCounter + 1 ELSE 0
                    triggered == match /\ counted >= MATCH_THRESHOLD
                IN  /\ triggered => successTimers < MaxTimers
                    /\ matchCounter' = IF triggered THEN 0 ELSE counted
                    /\ successTimers' = IF triggered THEN successTimers + 1
                                                     ELSE successTimers
                    /\ ghostOp' = IF triggered THEN "success" ELSE "result"
                    /\ streak' = IF match THEN Min(streak + 1, MATCH_THRESHOLD) ELSE 0
                    /\ earned' = (earned \/ streak' >= MATCH_THRESHOLD)
        /\ UNCHANGED <<currentIndex, notGhostVars>>

\* nextMudra(): matchCounter is not touched
nextMudra ==
    /\ currentIndex' = (currentIndex % Len(mudras)) + 1
    /\ UNCHANGED matchCounter
    /\ streak' = 0
    /\ earned' = FALSE

\* prevMudra(): matchCounter is not touched
prevMudra ==
    /\ currentIndex' = ((currentIndex + Len(mudras) - 2) % Len(mudras)) + 1
    /\ UNCHANGED matchCounter
    /\ streak' = 0
    /\ earned' = FALSE

\* the Next button, key or voice command
ClickNext ==
    /\ nextMudra
    /\ ghostOp' = "next"
    /\ UNCHANGED <<inFlight, successTimers, notGhostVars>>

\* the Previous button, key or voice command
ClickPrev ==
    /\ prevMudra
    /\ ghostOp' = "prev"
    /\ UNCHANGED <<inFlight, successTimers, notGhostVars>>

\* the 500 ms timeout set by triggerSuccess fires
SuccessTimeout ==
    /\ successTimers > 0
    /\ successTimers' = successTimers - 1
    /\ nextMudra
    /\ ghostOp' = "autoNext"
    /\ UNCHANGED <<inFlight, notGhostVars>>

NextGhost == Tick \/ Complete \/ ClickNext \/ ClickPrev \/ SuccessTimeout

SpecGhost == Init /\ [][NextGhost]_vars

----------------------------------------------------------------------------
(* The Electron main process and its Python engine.  The main process       *)
(* spawns a Python child, writes one line per 'mudra:detect' request to     *)
(* its stdin and reads its stdout line by line; the child reads the image   *)
(* lines in order and prints one line per image, and may print other lines. *)
(* A request is identified by its number; the answer the child produces     *)
(* for request n carries n.                                                 *)

MaxRequests == 3
MaxLines == 2

\* spawns of the Python child
MaxChildren == 2

\* a line of the child's stdout: READY, the answer to a request as parsable
\* JSON, a line that starts with '{' and does not parse (the answer to a
\* request, or belonging to none: of = 0), or any other text
Line(kind, of) == [kind |-> kind, of |-> of]

\* what a promise is resolved with: the parsed answer to request `of`, or
\* { error: ... }
Answer(of) == [error |-> NULL, of |-> of]
ErrorResult(error) == [error |-> error, of |-> 0]

notIpcVars ==
    <<variant, fsm, call, ret, scorerVars, asyncVars, histVars, normVars, geomVars,
      steadyVars, ghostVars>>

\* the ChildProcess object of the n-th spawn
Child(n) == ToString(n)

\* the spawn number of a ChildProcess object
SpawnNo(child) == CHOOSE n \in 1..MaxChildren : Child(n) = child

\* a child as spawn() returns it
NewChild(status) == [status |-> status, requests |-> {}]

\* the child spawned last is running: the pipes are those of this child
Running == children # <<>> /\ children[Len(children)].status = "alive"

\* spawnPythonProcess(), at startup or from 'mudra:init', with pythonProcess
\* null: the child starts and prints READY, or it fails to start and an 'error'
\* event is due
SpawnPython ==
    /\ pythonProcess = NULL
    /\ Len(children) < MaxChildren
    /\ pythonProcess' = Child(Len(children) + 1)
    /\ \/ /\ children' = Append(children, NewChild("alive"))
          /\ stdoutPipe' = <<Line("READY", 0)>>
       \/ /\ children' = Append(children, NewChild("failing"))
          /\ stdoutPipe' = <<>>
    /\ stdinPipe' = <<>>
    /\ UNCHANGED <<isPythonReady, detectQueue, resolutions, issued>>
    /\ UNCHANGED notIpcVars

\* killPythonProcess(), from 'window-all-closed' or 'will-quit': the child is
\* signalled and the reference dropped; the 'close' event comes later
KillPython ==
    /\ pythonProcess # NULL
    /\ children' = [children EXCEPT ![SpawnNo(pythonProcess)].status =
                        IF @ = "alive" THEN "killed" ELSE @]
    /\ pythonProcess' = NULL
    /\ stdinPipe' = <<>>
    /\ stdoutPipe' = <<>>
    /\ UNCHANGED <<isPythonReady, detectQueue, resolutions, issued>>
    /\ UNCHANGED notIpcVars

\* the running child exits by itself; the lines it has printed can still be read
PythonExits ==
    /\ Running
    /\ children' = [children EXCEPT ![Len(children)].status = "exited"]
    /\ stdinPipe' = <<>>
    /\ UNCHANGED <<pythonProcess, isPythonReady, detectQueue, stdoutPipe, resolutions,
                   issued>>
    /\ UNCHANGED notIpcVars

\* pythonProcess.on('error') of a child that failed to start
ErrorEvent ==
    \E n \in DOMAIN children :
        /\ children[n].status = "failing"
        /\ children' = [children EXCEPT ![n].status = "exited"]
        /\ isPythonReady' = FALSE
        /\ UNCHANGED <<pythonProcess, detectQueue, stdinPipe, stdoutPipe, resolutions,
                       issued>>
        /\ UNCHANGED notIpcVars

\* pythonProcess.on('close') of a child that has exited or was killed, after
\* its stdout has been read to the end
CloseEvent ==
    \E n \in DOMAIN children :
        /\ children[n].status \in {"exited", "killed"}
        /\ n = Len(children) => stdoutPipe = <<>>
        /\ children' = [children EXCEPT ![n].status = "closed"]
        /\ pythonProcess' = NULL
        /\ isPythonReady' = FALSE
        /\ UNCHANGED <<detectQueue, stdinPipe, stdoutPipe, resolutions, issued>>
        /\ UNCHANGED notIpcVars

\* the body of the stdout handler's loop for one line
handleLine(st, line) ==
    CASE line.kind = "READY" -> [st EXCEPT !.ready = TRUE]
      [] line.kind = "json" ->
            \* const req = detectQueue.shift(); if (req) req.resolve(result)
            IF st.queue = <<>> THEN st
            ELSE [st EXCEPT !.queue = Tail(st.queue),
                            !.res[Head(st.queue)] = Append(@, Answer(line.of))]
      [] line.kind = "garbled" -> st    \* JSON.parse throws before the shift
      [] line.kind = "log" -> st

RECURSIVE handleLines(_, _)
handleLines(st, lines) ==
    IF lines = <<>> THEN st ELSE handleLines(handleLine(st, Head(lines)), Tail(lines))

\* pythonProcess.stdout.on('data'): a chunk that completes the first n lines
StdoutData ==
    \E n \in 1..Len(stdoutPipe) :
        LET st == handleLines([ready |-> isPythonReady, queue |-> detectQueue,
                               res |-> resolutions], SubSeq(stdoutPipe, 1, n))
        IN  /\ isPythonReady' = st.ready
            /\ detectQueue' = st.queue
            /\ resolutions' = st.res
            /\ stdoutPipe' = SubSeq(stdoutPipe, n + 1, Len(stdoutPipe))
            /\ UNCHANGED <<pythonProcess, stdinPipe, issued, children>>
            /\ UNCHANGED notIpcVars

\* ipcMain.handle('mudra:detect'): the write to stdin succeeds or throws
Detect ==
    /\ issued < MaxRequests
    /\ issued' = issued + 1
    /\ IF ~isPythonReady \/ pythonProcess = NULL
       THEN /\ resolutions' = Append(resolutions, <<ErrorResult("Python model not ready")>>)
            /\ UNCHANGED <<detectQueue, stdinPipe, children>>
       ELSE \/ /\ detectQueue' = Append(detectQueue, issued')
               \* a line written to a child that is gone is read by nobody
               /\ stdinPipe' = IF Running THEN Append(stdinPipe, issued') ELSE stdinPipe
               /\ resolutions' = Append(resolutions, <<>>)
               /\ children' = [children EXCEPT ![SpawnNo(pythonProcess)].requests =
                                   @ \cup {issued'}]
            \/ \* catch (e): detectQueue.pop() removes the entry just pushed
               /\ resolutions' = Append(resolutions, <<ErrorResult("Pipe write error")>>)
               /\ UNCHANGED <<detectQueue, stdinPipe, children>>
    /\ UNCHANGED <<pythonProcess, isPythonReady, stdoutPipe>>
    /\ UNCHANGED notIpcVars

\* the child reads the next image line and prints its answer
PythonAnswers ==
    /\ stdinPipe # <<>>
    /\ Len(stdoutPipe) < MaxLines
    /\ \E kind \in {"json", "garbled"} :
          stdoutPipe' = Append(stdoutPipe, Line(kind, Head(stdinPipe)))
    /\ stdinPipe' = Tail(stdinPipe)
    /\ UNCHANGED <<pythonProcess, isPythonReady, detectQueue, resolutions, issued,
                   children>>
    /\ UNCHANGED notIpcVars

\* the child prints a line that answers no request
PythonLogs ==
    /\ Running
    /\ Len(stdoutPipe) < MaxLines
    /\ \E kind \in {"garbled", "log"} :
          stdoutPipe' = Append(stdoutPipe, Line(kind, 0))
    /\ UNCHANGED <<pythonProcess, isPythonReady, detectQueue, stdinPipe, resolutions,
                   issued, children>>
    /\ UNCHANGED notIpcVars

NextIpc ==
    \/ SpawnPython
    \/ StdoutData
    \/ Detect
    \/ PythonAnswers
    \/ PythonLogs
    \/ KillPython
    \/ PythonExits
    \/ ErrorEvent
    \/ CloseEvent

SpecIpc == Init /\ [][NextIpc]_vars

----------------------------------------------------------------------------
(* Types *)

FSMStates ==
    {"NO_HAND", "HAND_DETECTED", "ENTERING_MUDRA", "CONFIRMED_MUDRA", "EXITING_MUDRA"}

TypeOK ==
    /\ variant \in Variants
    /\ fsm.state \in FSMStates
    /\ fsm.enterCount \in 0..CONFUSED_FRAMES
    /\ fsm.exitCount \in 0..EXIT_THRESHOLD(variant)
    /\ fsm.mismatchCount \in 0..(MAX_MISMATCH(variant) + 1)
    /\ fsm.confidence \in 0..100
    /\ entryRun \in 0..MaxRun
    /\ diffRun \in 0..MaxRun

----------------------------------------------------------------------------
(* Properties of MudraFSM.update *)

Calls == {"update", "frame", "nohand"}

Confirmed(pose) == fsm.state = "CONFIRMED_MUDRA" /\ ret.displayName = pose

\* C1 as stated: fed (true, X, 0.9, "ML") with one plain X from HAND_DETECTED with
\* zeroed counters, the FSM is CONFIRMED_MUDRA displaying X on frame number
\* ENTER_THRESHOLD and on no earlier frame.
C1_ConfirmsAtEnterThreshold ==
    (entryRun >= 1 /\ entryRun <= ENTER_THRESHOLD(variant))
        => (Confirmed(entryPose) <=> entryRun = ENTER_THRESHOLD(variant))

\* the frame on which a plain pose fed from HAND_DETECTED is confirmed: the first
\* frame only enters ENTERING_MUDRA with enterCount = 1
EntryFrame(v) == IF ENTER_THRESHOLD(v) < 2 THEN 2 ELSE ENTER_THRESHOLD(v)

\* C1 amended: fed (true, X, 0.9, "ML") with one plain X from HAND_DETECTED with
\* zeroed counters, the FSM is CONFIRMED_MUDRA displaying X on frame number
\* max(2, ENTER_THRESHOLD), which is frame 2 in both variants, and on no earlier
\* frame.
C1_ConfirmsAtEntryFrame ==
    (entryRun >= 1 /\ entryRun <= EntryFrame(variant))
        => (Confirmed(entryPose) <=> entryRun = EntryFrame(variant))

C1_Witness ==
    /\ variant = "A"
    /\ entryRun = 2
    /\ call.from = "ENTERING_MUDRA"
    /\ Confirmed(entryPose)

\* C2: once CONFIRMED_MUDRA on X, the first EXIT_THRESHOLD-1 consecutive frames
\* with a hand and a name other than X keep displayName = X and currentMudra = X,
\* and the EXIT_THRESHOLD-th is the first to return "Show mudra...", with state
\* HAND_DETECTED and currentMudra = null.
C2_ExitAfterThreshold ==
    /\ (diffRun >= 1 /\ diffRun < EXIT_THRESHOLD(variant))
          => /\ ret.displayName = exitPose
             /\ ret.displayName # "Show mudra..."
             /\ fsm.currentMudra = exitPose
    /\ diffRun = EXIT_THRESHOLD(variant)
          => /\ ret = ShowRet
             /\ fsm.state = "HAND_DETECTED"
             /\ fsm.currentMudra = NULL
    /\ diffRun <= EXIT_THRESHOLD(variant)

C2_Witness ==
    /\ variant = "A"
    /\ diffRun = EXIT_THRESHOLD(variant)
    /\ call.name = NULL
    /\ ret = ShowRet

\* C3: update(true, P, c, "RULE") with non-null P made in NO_HAND or HAND_DETECTED
\* confirms in that call: state CONFIRMED_MUDRA, currentMudra P, method "RULE",
\* confidence 1.0 whatever c is, and it returns (P, 1.0, "RULE").
C3_RuleConfirmsAtOnce ==
    (/\ call.op \in Calls
     /\ call.from \in {"NO_HAND", "HAND_DETECTED"}
     /\ call.handPresent
     /\ call.name # NULL
     /\ call.method = "RULE")
        => /\ fsm.state = "CONFIRMED_MUDRA"
           /\ fsm.currentMudra = call.name
           /\ fsm.method = "RULE"
           /\ fsm.confidence = 100
           /\ ret = Ret(call.name, 100, "RULE")

C3_Witness ==
    /\ call.op = "update"
    /\ call.from = "NO_HAND"
    /\ call.handPresent
    /\ call.name = "Pataka"
    /\ call.conf = 90
    /\ call.method = "RULE"
    /\ ret = Ret("Pataka", 100, "RULE")

\* a rule evaluator fired on the frame and its canonical pose is the scorer's result
RuleWon ==
    \E i \in 1..Len(RULE_NAMES) :
        /\ frame.rules[i] = "true"
        /\ det.mudraName \in {RULE_NAMES[i], Normalized[RULE_NAMES[i]]}

\* C4: in the weighted-voting pipeline (variant A), a frame on which a rule
\* evaluator fires and wins, arriving in NO_HAND or HAND_DETECTED, leaves the FSM
\* in CONFIRMED_MUDRA displaying the pose after that one frame.
C4_RuleFrameSkipsDebounce ==
    (/\ variant = "A"
     /\ call.op = "frame"
     /\ call.from \in {"NO_HAND", "HAND_DETECTED"}
     /\ RuleWon)
        => Confirmed(det.mudraName)

\* C5: update(false, ...) from any state and with any candidate arguments sets
\* state NO_HAND and currentMudra null and returns ("No hand detected", 0.0, "").
C5_NoHand ==
    (call.op \in Calls /\ ~call.handPresent)
        => /\ fsm.state = "NO_HAND"
           /\ fsm.currentMudra = NULL
           /\ ret = NoHandRet

C5_Witness ==
    /\ call.op = "update"
    /\ call.from = "EXITING_MUDRA"
    /\ ~call.handPresent
    /\ call.name = "Pataka"
    /\ call.method = "RULE"
    /\ fsm.state = "NO_HAND"

\* C6: after any update call with handPresent = false, method, confidence,
\* enterCount, exitCount and mismatchCount are those of a new MudraFSM.
C6_NoHandResetsEvidence ==
    (call.op \in Calls /\ ~call.handPresent)
        => /\ fsm.method = NewFSM(variant).method
           /\ fsm.confidence = NewFSM(variant).confidence
           /\ fsm.enterCount = NewFSM(variant).enterCount
           /\ fsm.exitCount = NewFSM(variant).exitCount
           /\ fsm.mismatchCount = NewFSM(variant).mismatchCount

\* C7: a call with a hand and candidateName = undefined made in NO_HAND or
\* HAND_DETECTED is handled like candidateName = null: state HAND_DETECTED,
\* currentMudra null, ("Show mudra...", 0.0, "") returned; and undefined is never
\* the tentative or committed pose.
C7_UndefinedIsNoCandidate ==
    /\ (/\ call.op \in Calls
        /\ call.from \in {"NO_HAND", "HAND_DETECTED"}
        /\ call.handPresent
        /\ call.name = UNDEFINED)
          => /\ fsm.state = "HAND_DETECTED"
             /\ fsm.currentMudra = NULL
             /\ ret = ShowRet
    /\ fsm.currentMudra # UNDEFINED

\* a step that is a call with a hand made in state `from`
HandCallIn(from) ==
    /\ fsm.state = from
    /\ call'.op \in Calls
    /\ call'.from = from
    /\ call'.handPresent

\* C8: in ENTERING_MUDRA on X a frame with another name increments mismatchCount;
\* the tentative pose is discarded (HAND_DETECTED, currentMudra null,
\* "Stabilizing...") exactly when mismatchCount then exceeds MAX_MISMATCH, else the
\* FSM stays in ENTERING_MUDRA on X and returns "Detecting..."; a frame with name X
\* sets mismatchCount to 0.
C8_Step ==
    HandCallIn("ENTERING_MUDRA") =>
        IF call'.name # fsm.currentMudra
        THEN IF fsm.mismatchCount + 1 > MAX_MISMATCH(variant)
             THEN /\ fsm'.state = "HAND_DETECTED"
                  /\ fsm'.currentMudra = NULL
                  /\ ret' = StabilizeRet
             ELSE /\ fsm'.state = "ENTERING_MUDRA"
                  /\ fsm'.currentMudra = fsm.currentMudra
                  /\ fsm'.mismatchCount = fsm.mismatchCount + 1
                  /\ ret' = DetectingRet
        ELSE fsm'.mismatchCount = 0

C8_MismatchTolerance == [][C8_Step]_vars

C8_Witness ==
    /\ call.from = "ENTERING_MUDRA"
    /\ call.handPresent
    /\ call.name = "Chakra"
    /\ fsm.state = "HAND_DETECTED"
    /\ ret = StabilizeRet

\* C9, the returning frame: in EXITING_MUDRA on X a frame with name X gives
\* CONFIRMED_MUDRA with exitCount 0, currentMudra and method unchanged, and
\* returns X
C9_Step ==
    (HandCallIn("EXITING_MUDRA") /\ call'.name = fsm.currentMudra)
        => /\ fsm'.state = "CONFIRMED_MUDRA"
           /\ fsm'.exitCount = 0
           /\ fsm'.currentMudra = fsm.currentMudra
           /\ fsm'.method = fsm.method
           /\ ret'.displayName = fsm.currentMudra

\* C9, the later exit: after a return the EXITING_MUDRA counter counts again from
\* the first differing frame, it always equals the number of consecutive differing
\* frames and lies between 1 and EXIT_THRESHOLD-1
C9_ExitCounted ==
    fsm.state = "EXITING_MUDRA"
        => /\ fsm.exitCount = diffRun
           /\ fsm.exitCount >= 1
           /\ fsm.exitCount < EXIT_THRESHOLD(variant)

\* C9: in EXITING_MUDRA on X (exitCount between 1 and EXIT_THRESHOLD-1) a frame
\* with name X returns the FSM to CONFIRMED_MUDRA with exitCount 0, currentMudra
\* and method unchanged, displaying X; a later exit needs EXIT_THRESHOLD
\* consecutive differing frames again.
C9_ReturnBeforeExit == [][C9_Step]_vars /\ []C9_ExitCounted

C9_Witness ==
    /\ variant = "A"
    /\ call.from = "EXITING_MUDRA"
    /\ call.handPresent
    /\ call.name = fsm.currentMudra
    /\ fsm.state = "CONFIRMED_MUDRA"
    /\ fsm.exitCount = 0
    /\ ret.displayName = "Pataka"

\* C10: in CONFIRMED_MUDRA and EXITING_MUDRA, method "RULE" implies confidence
\* 1.0; and a matching frame in CONFIRMED_MUDRA with a committed method other than
\* "RULE" sets confidence to the frame's candidateConf, which is the displayConf
\* returned.
C10_RuleConfidencePinned ==
    /\ (fsm.state \in {"CONFIRMED_MUDRA", "EXITING_MUDRA"} /\ fsm.method = "RULE")
          => fsm.confidence = 100 /\ ret.displayConf = 100
    /\ (/\ call.op \in Calls
        /\ call.from = "CONFIRMED_MUDRA"
        /\ call.handPresent
        /\ call.name = fsm.currentMudra
        /\ fsm.method # "RULE")
          => fsm.confidence = call.conf /\ ret.displayConf = call.conf

C10_Witness ==
    /\ call.from = "CONFIRMED_MUDRA"
    /\ call.handPresent
    /\ call.name = fsm.currentMudra
    /\ call.conf = 90
    /\ fsm.method = "RULE"
    /\ fsm.state = "CONFIRMED_MUDRA"
    /\ ret.displayConf = 100

----------------------------------------------------------------------------
(* Properties of the ENTERING branch of variant A and of MudraFSM.reset *)

\* the poses named in a known confusable pair
ConfusablePoses == {"Chakra", "Shivalinga", "Anjali", "Namaskaram"}

\* the number of agreeing frames variant A asks for while X is tentative
RequiredFor(X) == IF X \in ConfusablePoses THEN 8 ELSE ENTER_THRESHOLD("A")

C11_Step ==
    (HandCallIn("ENTERING_MUDRA") /\ variant = "A")
        => IF call'.name = fsm.currentMudra
           THEN /\ fsm'.enterCount = fsm.enterCount + 1
                /\ (fsm'.state = "CONFIRMED_MUDRA"
                        <=> fsm'.enterCount >= RequiredFor(fsm.currentMudra))
                /\ (fsm'.state # "CONFIRMED_MUDRA" => fsm'.state = "ENTERING_MUDRA")
           ELSE fsm'.state # "CONFIRMED_MUDRA"

\* while a pose is tentative its agreeing-frame count is still short of the
\* required value
C11_NotEarlier ==
    (variant = "A" /\ fsm.state = "ENTERING_MUDRA")
        => fsm.enterCount >= 1 /\ fsm.enterCount < 8

\* C11: in variant A, in ENTERING_MUDRA, an agreeing frame confirms exactly when
\* the incremented enterCount has reached 8 for a tentative pose of a confusable
\* pair ({Chakra, Shivalinga}, {Anjali, Namaskaram}) and ENTER_THRESHOLD for any
\* other pose; a differing frame never confirms, so confirmation is not earlier.
C11_ConfusableNeedsEight == [][C11_Step]_vars /\ []C11_NotEarlier

C11_Witness ==
    /\ variant = "A"
    /\ call.from = "ENTERING_MUDRA"
    /\ call.handPresent
    /\ call.name = "Chakra"
    /\ fsm.state = "CONFIRMED_MUDRA"
    /\ fsm.currentMudra = "Chakra"
    /\ fsm.enterCount = 8

C12_Step ==
    call'.op = "reset"
        => /\ fsm'.ENTER_THRESHOLD = fsm.ENTER_THRESHOLD
           /\ fsm'.EXIT_THRESHOLD = fsm.EXIT_THRESHOLD
           /\ fsm'.MAX_MISMATCH = fsm.MAX_MISMATCH

C12_Cleared ==
    call.op = "reset"
        => fsm = [state |-> "HAND_DETECTED", currentMudra |-> NULL, method |-> NULL,
                  confidence |-> 0, enterCount |-> 0, exitCount |-> 0,
                  mismatchCount |-> 0,
                  ENTER_THRESHOLD |-> IF variant = "A" THEN 1 ELSE 2,
                  EXIT_THRESHOLD |-> IF variant = "A" THEN 5 ELSE 2,
                  MAX_MISMATCH |-> IF variant = "A" THEN 3 ELSE 1]

\* C12: reset(), from any state, leaves state = HAND_DETECTED (never NO_HAND),
\* currentMudra = null, method = null, confidence = 0.0 and the three counters 0,
\* and the thresholds ENTER_THRESHOLD, EXIT_THRESHOLD and MAX_MISMATCH are the
\* ones the instance had before the call.
C12_ResetClears == [][C12_Step]_vars /\ []C12_Cleared

C12_Witness ==
    /\ call.op = "reset"
    /\ call.from = "EXITING_MUDRA"
    /\ fsm.state = "HAND_DETECTED"
    /\ fsm.EXIT_THRESHOLD = 5

----------------------------------------------------------------------------
(* Properties of the asynchronous pipeline *)

C13_Step ==
    \/ applied' = applied /\ UNCHANGED <<fsm, call, ret>>
    \/ applied' = applied + 1 /\ call'.op \in {"frame", "nohand"}

C13_InFlight ==
    /\ Len(pending) <= 1
    /\ \A i \in 1..Len(pending) :
          writesFeatures(variant, pending[i].frame) => featureTensor = pending[i].no
    /\ applied + Len(pending) = frameNo

----------------------------------------------------------------------------
(* Properties of detectMudraHybrid.  They are stated on the frame's inputs: *)
(* which evaluators returned true and what the classifier answered.         *)

\* detectMudraHybrid has been called on a frame
Scored == det # NoDet

\* the registry positions whose evaluator returned true on the frame
Fired == {i \in 1..Len(RULE_NAMES) : frame.rules[i] = "true"}

\* the canonical poses the rules voted for
FiredPoses == {Normalized[RULE_NAMES[i]] : i \in Fired}

\* the classifier was called and answered a class with confidence above the floor
MLVoted ==
    /\ frame.ml.status = "ok"
    /\ frame.ml.className # NULL
    /\ frame.ml.confidence > 30

\* the canonical pose of the classifier's answer
MLPose == Normalized[frame.ml.className]

\* C14: in variant A, when a rule fires and the classifier votes, with a
\* confidence in (0.3, 1.0], for a canonical pose no rule fired for, the winner
\* is a pose a rule voted for and never the classifier's pose.
C14_RuleOutranksML ==
    (/\ variant = "A"
     /\ Scored
     /\ Fired # {}
     /\ MLVoted
     /\ frame.ml.confidence <= 100
     /\ MLPose \notin FiredPoses)
        => det.mudraName \in FiredPoses /\ det.mudraName # MLPose

C14_Witness ==
    /\ variant = "A"
    /\ Fired = {1}
    /\ frame.ml.status = "ok"
    /\ frame.ml.className = "Pathaka"
    /\ frame.ml.confidence = 100
    /\ det.mudraName = "Mushti"

\* the canonical poses that received a vote on the frame (variant A)
VotedPoses == FiredPoses \cup (IF MLVoted THEN {MLPose} ELSE {})

\* the score of a canonical pose: 1.2 for each rule that fired for it, plus the
\* classifier's confidence if the classifier voted for it
ScoreOf(pose) ==
    120 * Cardinality({i \in Fired : Normalized[RULE_NAMES[i]] = pose})
      + (IF MLVoted /\ MLPose = pose THEN frame.ml.confidence ELSE 0)

\* the winning score of variant A, 0 without a vote
BestScoreA ==
    IF VotedPoses = {} THEN 0
    ELSE CHOOSE m \in {ScoreOf(q) : q \in VotedPoses} :
            \A q \in VotedPoses : m >= ScoreOf(q)

\* the winning score of variant B: 1.0 for a rule match, else the confidence of
\* the classifier where it is called
BestScoreB ==
    IF Fired # {} THEN 100
    ELSE IF frame.steady /\ frame.ml.status = "ok" THEN frame.ml.confidence
    ELSE 0

BestScore == IF variant = "A" THEN BestScoreA ELSE BestScoreB

IsPose(name) == name \notin {"Unknown", "Stabilizing...", NULL, ""}

C15_VariantA ==
    (Scored /\ variant = "A")
        => /\ IsPose(det.mudraName) <=> BestScoreA > 55
           /\ BestScoreA <= 55 => det = Det("Unknown", 0, "ML")

\* C15 amended, variant B: a rule match is returned with confidence 1.0; with no
\* rule match an unsteady hand gives ("Stabilizing...", 0); a steady hand gives
\* the classifier's class when its confidence is at least 0.55 (0.55 included),
\* "Unknown" with the classifier's own confidence below that, and ("Unknown", 0)
\* when the classifier is not initialised or throws
C15_VariantB ==
    (Scored /\ variant = "B")
        => IF Fired # {}
           THEN IsPose(det.mudraName) /\ det.confidence = 100
           ELSE IF ~frame.steady
           THEN det.mudraName = "Stabilizing..." /\ det.confidence = 0
           ELSE IF frame.ml.status = "ok" /\ frame.ml.confidence >= 55
           THEN det.mudraName = frame.ml.className
                   /\ det.confidence = frame.ml.confidence
           ELSE IF frame.ml.status = "ok"
           THEN det.mudraName = "Unknown" /\ det.confidence = frame.ml.confidence
           ELSE det.mudraName = "Unknown" /\ det.confidence = 0

AcceptedA == Scored /\ variant = "A" /\ IsPose(det.mudraName)

\* a rule vote, an ML vote contributed to the winner's score
RuleContributed == det.mudraName \in FiredPoses
MLContributed   == MLVoted /\ MLPose = det.mudraName

\* C16 as stated: the tag of an accepted winner of variant A is "HYBRID" if both
\* a rule vote and an ML vote contributed to its score, and "ML" otherwise.
C16_HybridNeedsBoth ==
    AcceptedA
        => det.method = IF RuleContributed /\ MLContributed THEN "HYBRID" ELSE "ML"

\* C16 amended: the tag of an accepted winner of variant A is "HYBRID" if a rule
\* vote contributed to its score, with or without an ML vote, and "ML" if only
\* the ML vote did.
C16_HybridNeedsRule ==
    AcceptedA
        => /\ det.method = IF RuleContributed THEN "HYBRID" ELSE "ML"
           /\ RuleContributed \/ MLContributed

C16_Witness ==
    /\ AcceptedA
    /\ Fired = {2}
    /\ ~MLVoted
    /\ det = Det("Pataka", 100, "HYBRID")

\* the classifier contributes nothing: not initialised, throwing, or no class
ClassifierAbsent == frame.ml.status # "ok" \/ frame.ml.className = NULL

\* C17: in variant A the returned confidence is min(1.0, winning score) for an
\* accepted winner and lies in [0, 1]; a frame on which exactly one rule fires
\* and the classifier is absent returns that rule's canonical pose with
\* confidence 1.0 and a method tag that includes the rule source.
C17_ConfidenceCapped ==
    (Scored /\ variant = "A")
        => /\ det.confidence \in 0..100
           /\ IsPose(det.mudraName)
                 => det.confidence = IF BestScoreA < 100 THEN BestScoreA ELSE 100
           /\ (Cardinality(Fired) = 1 /\ ClassifierAbsent)
                 => /\ \A i \in Fired :
                         det.mudraName = Normalized[RULE_NAMES[i]]
                    /\ det.confidence = 100
                    /\ det.method \in {"RULE", "HYBRID"}

C17_Witness ==
    /\ variant = "A"
    /\ Fired = {1}
    /\ frame.ml.status = "uninit"
    /\ det = Det("Mushti", 100, "HYBRID")

\* the registry positions whose evaluator threw on the frame
Threw == {i \in 1..Len(RULE_NAMES) : frame.rules[i] = "throw"}

\* the evaluators after position i that the loop reaches when nothing aborts
\* it: all of them in variant A, those with no rule match before them in B
ReachedAfter(i) ==
    {j \in (i + 1)..Len(RULE_NAMES) :
        variant = "B" => \A k \in 1..(j - 1) : frame.rules[k] # "true"}

ClassifierDown == frame.ml.status \in {mlStatus("none"), mlStatus("session")}

PoseGroups ==
    {{"Musthi Mudra", "Musthi"}, {"Pataka Mudra", "Pathaka", "Pataka"}, {"Chakra"}}

\* the names under which a vote was cast on the frame
VotedRaw ==
    {RULE_NAMES[i] : i \in Fired} \cup (IF MLVoted THEN {frame.ml.className} ELSE {})

\* the rule and the classifier voted for one pose under different names
SamePoseVotes ==
    /\ MLVoted
    /\ \E i \in Fired, G \in PoseGroups :
          RULE_NAMES[i] \in G /\ frame.ml.className \in G

\* C20: in variant A with MudraConstants loaded, a rule vote under "<Name> Mudra"
\* and an ML vote under a spelling of the same pose are accumulated in one
\* candidate entry, with score 1.2 plus the ML confidence and sources RULE and
\* ML; the candidates hold one entry for each pose voted for, never two.
C20_VotesCollapse ==
    (Scored /\ variant = "A")
        => /\ Len(candidates)
                 = Cardinality({G \in PoseGroups : G \cap VotedRaw # {}})
           /\ \A c, d \in 1..Len(candidates) :
                 candidates[c].name = candidates[d].name => c = d
           /\ SamePoseVotes =>
                 \E c \in 1..Len(candidates) :
                    /\ candidates[c].score = 120 + frame.ml.confidence
                    /\ candidates[c].sources = {"RULE", "ML"}
                    /\ \A d \in 1..Len(candidates) :
                          d # c => candidates[d].sources = {"RULE"}

C20_Witness ==
    /\ variant = "A"
    /\ Fired = {2}
    /\ frame.ml.className = "Pathaka"
    /\ frame.ml.confidence = 90
    /\ candidates = <<[name |-> "Pataka", score |-> 210, sources |-> {"RULE", "ML"}]>>

----------------------------------------------------------------------------
(* Properties of normalizeMudraName *)

\* C21: for every canonical name C, each of C, lower-case C, upper-case C,
\* C + " Mudra" and every key of the map whose value is C, in any letter case,
\* is normalised to exactly C.
C21_SpellingsNormalised ==
    \A C \in CANONICAL_MUDRAS : rawName \in SpellingsOf(C) => normName = C

----------------------------------------------------------------------------
(* Properties of the names MudraFSM.update compares *)

\* two names denote one pose under the canonicalization lookup
SamePose(a, b) ==
    /\ a \in DOMAIN CharsOf
    /\ b \in DOMAIN CharsOf
    /\ Normalized[a] = Normalized[b]

\* C22: a frame whose candidate name denotes the pose of currentMudra under the
\* canonicalization lookup is an agreeing frame: in ENTERING_MUDRA it counts no
\* mismatch, in CONFIRMED_MUDRA it starts no exit, in EXITING_MUDRA it returns
\* to CONFIRMED_MUDRA.
C22_CanonicalEquality ==
    (call.op \in Calls /\ call.handPresent /\ SamePose(call.name, fsm.currentMudra))
        => /\ call.from = "ENTERING_MUDRA" => fsm.mismatchCount = 0
           /\ call.from = "CONFIRMED_MUDRA" => fsm.state = "CONFIRMED_MUDRA"
           /\ call.from = "EXITING_MUDRA" => fsm.state = "CONFIRMED_MUDRA"

Evaluated == verdict # <<>>

\* C23: every evaluator of the registry is total: on any 21-point hand it returns
\* true or false and never throws, in particular isTripatakaMudra of variant A on
\* a hand whose index, middle and pinky fingers are straight and whose ring finger
\* is bent.
C23_EvaluatorsTotal ==
    Evaluated =>
        \A h \in SCALES, name \in EVALUATORS : verdict[h][name] \in {"true", "false"}

\* C24: the evaluators fail closed on degenerate geometry: isSuchiMudra returns
\* false whenever landmarks 6 and 7 coincide, and isMrigasheersha returns false
\* whenever the thumb vector (landmark 2 to 4) or the wrist-to-middle-MCP vector
\* (landmark 0 to 9) is zero.
C24_FailClosed ==
    Evaluated =>
        /\ landmarks[6] = landmarks[7] => verdict[2]["Suchi Mudra"] = "false"
        /\ (landmarks[4] = landmarks[2] \/ landmarks[9] = landmarks[0])
                => verdict[2]["Mrigasheersha Mudra"] = "false"

\* C25: the verdict of every evaluator is the same at the scales 0.5, 1 and 2 of
\* one hand.
C25_ScaleInvariant ==
    Evaluated =>
        \A name \in EVALUATORS, h \in SCALES : verdict[h][name] = verdict[2][name]

\* an update call that proposes a pose on model evidence
ModelEvidenceCall ==
    /\ call'.op \in Calls
    /\ call'.handPresent
    /\ call'.name \in PoseNames
    /\ call'.method \in {"ML", "HYBRID"}

C26_Step ==
    ModelEvidenceCall =>
        /\ fsm.state \in {"NO_HAND", "HAND_DETECTED"}
              => /\ fsm'.state = "ENTERING_MUDRA"
                 /\ fsm'.enterCount = 1
                 /\ ret' = DetectingRet
        /\ ret'.displayName = call'.name
              => /\ fsm.state \in {"ENTERING_MUDRA", "CONFIRMED_MUDRA", "EXITING_MUDRA"}
                 /\ fsm.currentMudra = call'.name

\* C26: an update call that proposes a pose with method "ML" or "HYBRID" while no
\* pose is tracked moves the FSM to ENTERING_MUDRA with enterCount = 1 and returns
\* "Detecting..."; a call with such a candidate displays its pose only if the FSM
\* was already tracking that pose from an earlier frame, so at least two frames
\* carry the name before it is displayed, in both variants.
C26_FlickerFreeEntry == [][C26_Step]_vars

C26_Witness ==
    /\ call.op = "update"
    /\ call.from = "ENTERING_MUDRA"
    /\ call.handPresent
    /\ call.method = "ML"
    /\ call.name = "Pataka"
    /\ entryRun = 2
    /\ ret.displayName = "Pataka"

\* C27: in variant B the classifier is called on a frame only if no rule evaluator
\* returned true and isHandSteady is true, that is only with previous landmarks
\* from which no key landmark has moved beyond the threshold; on a frame without
\* previous landmarks on which no rule fires the classifier is not called and the
\* result is ("Stabilizing...", 0.0, null).
C27_ClassifierGated ==
    (Scored /\ variant = "B") =>
        /\ callsClassifier("B", frame) => (Fired = {} /\ motion = "still")
        /\ (det.method = "ML" /\ (det.mudraName # "Unknown" \/ det.confidence > 0))
              => (Fired = {} /\ motion = "still")
        /\ (motion = "noPrev" /\ Fired = {})
              => /\ det = Det("Stabilizing...", 0, NULL)
                 /\ ~callsClassifier("B", frame)

C27_Witness ==
    /\ Scored
    /\ variant = "B"
    /\ motion = "noPrev"
    /\ Fired = {}
    /\ frame.ml.status = "ok"
    /\ frame.ml.confidence >= ML_CONF_THRESHOLD
    /\ det = Det("Stabilizing...", 0, NULL)

C28_Step ==
    (ghostOp' = "autoNext" /\ currentIndex' # currentIndex) => earned

\* C28: the automatic advance fires only for a target that has received
\* MATCH_THRESHOLD consecutive matching results since it became the target:
\* matches counted against an earlier target (before a manual Next or Previous,
\* or during the 500 ms delay of an earlier success) do not count for it.
C28_AdvanceEarned == [][C28_Step]_vars

\* C29: every 'mudra:detect' promise is resolved at most once, and a promise that
\* is resolved with an answer of the Python process is resolved with the answer
\* to its own request.
C29_FifoMatching ==
    \A n \in DOMAIN resolutions :
        /\ Len(resolutions[n]) <= 1
        /\ \A i \in DOMAIN resolutions[n] :
              resolutions[n][i].error = NULL => resolutions[n][i].of = n

C30_Step ==
    (/\ call'.op \in Calls
     /\ ret.displayName \in PoseNames
     /\ ret'.displayName \in PoseNames)
        => ret'.displayName = ret.displayName

\* C30: if an update call returns a pose name as displayName and the update call
\* that follows it returns a pose name too, the two names are the same: the
\* displayed pose changes only through a sentinel output.
C30_NoDirectSwitch == [][C30_Step]_vars

C30_Witness ==
    /\ call.op = "update"
    /\ call.from = "CONFIRMED_MUDRA"
    /\ call.handPresent
    /\ call.name = "Chakra"
    /\ call.method = "RULE"
    /\ fsm.state = "EXITING_MUDRA"
    /\ ret.displayName = "Pataka"

\* the states in which a pose is tentative or committed
HoldsPose == fsm.state \in {"ENTERING_MUDRA", "CONFIRMED_MUDRA", "EXITING_MUDRA"}

\* the states in which the committed pose is displayed
ShowsPose == fsm.state \in {"CONFIRMED_MUDRA", "EXITING_MUDRA"}

\* C31: fed null or defined non-null names only, currentMudra is non-null exactly
\* in ENTERING_MUDRA, CONFIRMED_MUDRA and EXITING_MUDRA; state is one of the five
\* tags; update returns a pose name exactly when it leaves the FSM in
\* CONFIRMED_MUDRA or EXITING_MUDRA, and the name is then currentMudra.
C31_StateInvariants ==
    /\ fsm.state \in FSMStates
    /\ (fsm.currentMudra # NULL) <=> HoldsPose
    /\ call.op \in Calls =>
          /\ (ret.displayName \in PoseNames) <=> ShowsPose
          /\ ret.displayName \notin Sentinels <=> ShowsPose
          /\ ShowsPose => ret.displayName = fsm.currentMudra

C31_Witness ==
    /\ call.op = "update"
    /\ call.from = "CONFIRMED_MUDRA"
    /\ fsm.state = "EXITING_MUDRA"
    /\ fsm.currentMudra \in PoseNames
    /\ ret.displayName = fsm.currentMudra

\* C32: whenever a call moves the FSM from HAND_DETECTED (entered in that call
\* from NO_HAND, or before it) into ENTERING_MUDRA, mismatchCount is 0 after it.
C32_FreshTolerance ==
    (/\ call.op \in Calls
     /\ call.handPresent
     /\ call.from \in {"NO_HAND", "HAND_DETECTED"}
     /\ fsm.state = "ENTERING_MUDRA")
        => fsm.mismatchCount = 0

\* pose X is being fed for good
Feeding(X) == call.op = "feed" /\ call.name = X

\* C33: from every reachable state, once every call is update(true, X, ...) with
\* one pose name X (method ML, HYBRID or RULE), displayName becomes X after
\* finitely many frames and stays X on every later frame.
C33_EventuallyShown ==
    \A X \in PoseNames : Feeding(X) ~> [](ret.displayName = X)

C33_Witness ==
    /\ Feeding("Chakra")
    /\ call.from = "EXITING_MUDRA"
    /\ fsm.state = "HAND_DETECTED"
    /\ ret = ShowRet

\* the call made in this step hands a RULE candidate for a pose other than the
\* tentative or committed one
RuleFrameOnOtherPose ==
    /\ call'.op \in Calls
    /\ call'.handPresent
    /\ call'.method = "RULE"
    /\ call'.name \in PoseNames
    /\ fsm.state \in {"ENTERING_MUDRA", "CONFIRMED_MUDRA", "EXITING_MUDRA"}
    /\ fsm.currentMudra # call'.name

\* what a differing frame does in each of the three states
CountedAsDiffering ==
    \/ /\ fsm.state = "ENTERING_MUDRA"
       /\ IF fsm.mismatchCount + 1 > fsm.MAX_MISMATCH
          THEN fsm' = reset(fsm) /\ ret' = StabilizeRet
          ELSE fsm' = [fsm EXCEPT !.mismatchCount = @ + 1] /\ ret' = DetectingRet
    \/ /\ fsm.state = "CONFIRMED_MUDRA"
       /\ fsm' = [fsm EXCEPT !.state = "EXITING_MUDRA", !.exitCount = 1]
       /\ ret' = ShowCurrent(fsm)
    \/ /\ fsm.state = "EXITING_MUDRA"
       /\ IF fsm.exitCount + 1 >= fsm.EXIT_THRESHOLD
          THEN fsm' = reset(fsm) /\ ret' = ShowRet
          ELSE fsm' = [fsm EXCEPT !.exitCount = @ + 1] /\ ret' = ShowCurrent(fsm)

C34_Step ==
    RuleFrameOnOtherPose =>
        /\ fsm'.currentMudra # call'.name
        /\ ret'.displayName # call'.name
        /\ CountedAsDiffering

\* C34: a RULE candidate for pose Y that arrives in ENTERING_MUDRA,
\* CONFIRMED_MUDRA or EXITING_MUDRA on another pose never makes currentMudra or
\* displayName equal Y in that call; it is counted as a differing frame.
C34_BypassOnlyWhenIdle == [][C34_Step]_vars

C34_Witness ==
    /\ call.op = "update"
    /\ call.handPresent
    /\ call.method = "RULE"
    /\ call.name = "Chakra"
    /\ call.from = "ENTERING_MUDRA"
    /\ fsm.state = "ENTERING_MUDRA"
    /\ fsm.currentMudra = "Pataka"
    /\ fsm.mismatchCount = 1

\* the call made in this step hands a frame with a hand while a pose is tentative
FrameWhileEntering ==
    /\ call'.op \in Calls
    /\ call'.handPresent
    /\ fsm.state = "ENTERING_MUDRA"

\* a differing frame that does not trigger the reset changes mismatchCount only
C35_FrameEffect ==
    (FrameWhileEntering /\ call'.name # fsm.currentMudra
       /\ fsm'.state = "ENTERING_MUDRA")
        => fsm' = [fsm EXCEPT !.mismatchCount = fsm'.mismatchCount]

\* enterCount is the total of agreeing frames, and the frame that brings the
\* total to the required count confirms
C35_TotalCounts ==
    (FrameWhileEntering /\ call'.name = fsm.currentMudra)
        => /\ fsm.enterCount = tentative.agreed
           /\ fsm'.enterCount = tentative.agreed + 1
           /\ (fsm'.state = "CONFIRMED_MUDRA") <=>
                 (tentative.agreed + 1 >= requiredFrames(variant, fsm, call'.name))

\* a run of no more than MAX_MISMATCH differing frames does not discard the pose
C35_RunTolerated ==
    (FrameWhileEntering /\ call'.name # fsm.currentMudra
       /\ tentative.missRun + 1 <= fsm.MAX_MISMATCH)
        => fsm'.state = "ENTERING_MUDRA"

C35_Step == C35_FrameEffect /\ C35_TotalCounts /\ C35_RunTolerated

\* C35: in ENTERING_MUDRA a differing frame that does not trigger the reset
\* leaves enterCount, currentMudra, method and confidence unchanged, so a
\* tentative pose is confirmed once its agreeing frames, consecutive or not,
\* reach the required count, provided no run of more than MAX_MISMATCH differing
\* frames occurs in between.
C35_NonConsecutiveEntry == [][C35_Step]_vars

\* the first registry position whose evaluator returned true on the frame
FirstFired == CHOOSE i \in Fired : \A j \in Fired : i <= j

\* C36: when several rule evaluators return true on a frame and the classifier
\* votes for none of their poses (or does not vote), detectMudraHybrid reports the
\* pose of the evaluator that comes first in the registry, in both variants.
C36_FirstRuleWins ==
    (/\ Scored
     /\ Cardinality(Fired) >= 2
     /\ ~(MLVoted /\ MLPose \in FiredPoses))
        => det.mudraName = IF variant = "A"
                           THEN Normalized[RULE_NAMES[FirstFired]]
                           ELSE RULE_NAMES[FirstFired]

C36_Witness ==
    /\ variant = "A"
    /\ frame.rules = <<"true", "true">>
    /\ frame.ml.status = "ok"
    /\ frame.ml.className = "Chakra"
    /\ frame.ml.confidence = 100
    /\ Len(candidates) = 3
    /\ det.mudraName = Normalized[RULE_NAMES[1]]

\* the requests still in detectQueue
Queued == {detectQueue[i] : i \in DOMAIN detectQueue}

\* C37: once a Python child has closed, no request that was queued for it is
\* left in detectQueue (every queued 'mudra:detect' request is resolved, with a
\* result or an error object, also when the child exits or is killed).
C37_QueueDrained ==
    \A n \in DOMAIN children :
        children[n].status = "closed" => children[n].requests \cap Queued = {}

\* the child pythonProcess refers to, 0 if it refers to none
Referred == IF pythonProcess = NULL THEN 0 ELSE SpawnNo(pythonProcess)

C38_Step ==
    \* at most one child is running, and pythonProcess refers to it
    /\ \A n \in DOMAIN children' :
          children'[n].status = "alive" => pythonProcess' = Child(n)
    \* the reference to a child is dropped or replaced only when it stops running
    /\ (Referred # 0 /\ pythonProcess' # pythonProcess)
          => children'[Referred].status # "alive"
    \* the ready flag of a child is cleared only when it stops running
    /\ (Referred # 0 /\ isPythonReady /\ ~isPythonReady')
          => children'[Referred].status # "alive"

\* C38: at most one Python child is alive at any time and pythonProcess refers
\* to it: under every interleaving of spawnPythonProcess, killPythonProcess and
\* the 'close' and 'error' events, an event of an earlier child never clears the
\* reference or the ready flag of a later one.
C38_SingleChild == [][C38_Step]_vars

====
